---- MODULE Spec2Model ----
(***************************************************************************)
(* Verification model of the gibme-c/crypto library: scalar field, point   *)
(* group, Fiat-Shamir transcript, Schnorr / Borromean / CLSAG / Triptych   *)
(* signatures and the Bulletproofs range proof.                            *)
(*                                                                         *)
(* Scalars are integers modulo a small prime l (the library uses the       *)
(* Ed25519 group order).  A point of the prime-order subgroup is kept as   *)
(* its discrete logarithm to the base G, so G = 1, the neutral point Z = 0 *)
(* and point addition / scalar multiplication are addition /               *)
(* multiplication mod l.  SHA3-256 is a polynomial hash over the sequence  *)
(* of serialized values.                                                   *)
(***************************************************************************)
EXTENDS Integers, Sequences, FiniteSets, TLC

\* One record per subsystem; each specification below drives one of them
\* and leaves the others idle.
\*   tr  : a scalar_transcript_t object
\*   sg  : a call of Signature::generate_signature / check_signature
\*   bor : a call of RingSignature::Borromean::generate_ring_signature
\*   cl  : a call of RingSignature::CLSAG::generate_ring_signature
\*   tri : a call of RingSignature::Triptych::generate_ring_signature
\*   bp  : calls of RangeProofs::Bulletproofs::prove followed by verify
VARIABLES tr, sg, bor, cl, tri, bp, mn, ss, ser, rct, sc, gen, gt, vo, ip, gc, ps, cmp

vars == <<tr, sg, bor, cl, tri, bp, mn, ss, ser, rct, sc, gen, gt, vo, ip, gc, ps, cmp>>

\* value of the record of a subsystem that a specification does not drive
Idle == [pc |-> "idle"]

\* passes through a retry label that are explored
MaxRetries == 2

(***************************************************************************)
(* Scalar field  (src/types/crypto_scalar_t.cpp)                           *)
(***************************************************************************)

\* order of the prime-order subgroup (scaled down)
l == 101

\* size of the digest space of the hash and its absorption multiplier
HashMod == 7919

HashMul == 131

Scalars == 0 .. (l - 1)

ZERO == 0

ONE == 1

TWO == 2

EIGHT == 8

sc_add(a, b) == (a + b) % l

sc_sub(a, b) == (a + l - b) % l

sc_mul(a, b) == (a * b) % l

negate(a) == sc_sub(ZERO, a)

squared(a) == sc_mul(a, a)

\* double-and-multiply over the bits of the exponent, lowest bit first
RECURSIVE pow(_, _)
pow(a, e) ==
    IF e = 0 THEN 1
    ELSE LET rest == pow(sc_mul(a, a), e \div 2)
         IN  IF e % 2 = 1 THEN sc_mul(a, rest) ELSE rest

\* x^(l-2)
invert(a) == pow(a, l - 2)

INV_EIGHT == invert(EIGHT)

\* valid(): canonical and, unless allow_zero, not zero
scalar_valid(a) == a \in Scalars /\ a # ZERO

\* sc_isnonzero of the ed25519 backend: 0 for the zero scalar, 1 otherwise
sc_isnonzero(a) == IF a = ZERO THEN 0 ELSE 1

\* is_nonzero(): return sc_isnonzero(bytes) == 0
is_nonzero(a) == sc_isnonzero(a) = 0

(***************************************************************************)
(* Point group  (src/types/crypto_point_t.cpp)                             *)
(***************************************************************************)

G == 1

Z == 0

pt_add(P, Q) == (P + Q) % l

pt_sub(P, Q) == (P + l - Q) % l

\* scalar * point
pt_mul(a, P) == (a * P) % l

\* a.dbl_mult(A, b, B) = a*A + b*B
dbl_mult(a, A, b, B) == pt_add(pt_mul(a, A), pt_mul(b, B))

\* empty(): equal to the default (neutral) point
point_empty(P) == P = Z

point_valid(P) == ~point_empty(P)

check_subgroup(P) == ~point_empty(P)

(***************************************************************************)
(* Hashing  (src/types/crypto_hash_t.cpp)                                  *)
(***************************************************************************)

RECURSIVE Absorb(_, _)
Absorb(data, n) ==
    IF n = 0 THEN 7
    ELSE (Absorb(data, n - 1) * HashMul + data[n] + 1) % HashMod

\* digest of a serialized byte stream (a sequence of values)
sha3(data) == Absorb(data, Len(data))

\* crypto_hash_t::scalar(): the digest reduced mod l
hash_scalar(digest) == digest % l

\* crypto_hash_t::point(): hash-to-point, a subgroup element other than Z
hash_point(digest) == (digest % (l - 1)) + 1

(***************************************************************************)
(* Domain constants  (src/include/crypto_constants.h) and the generators   *)
(* H, U  (src/include/types/crypto_point_t.h): fixed hash outputs, scalars *)
(* for the *_DOMAIN_0 / CLSAG constants and TRANSCRIPT_BASE, points for    *)
(* the others                                                              *)
(***************************************************************************)

SIGNATURE_DOMAIN_0 == 54

BORROMEAN_DOMAIN_0 == 5

CLSAG_DOMAIN_0 == 60

CLSAG_DOMAIN_1 == 10

CLSAG_DOMAIN_2 == 79

TRIPTYCH_DOMAIN_0 == 97

TRIPTYCH_DOMAIN_1 == 11

BULLETPROOFS_DOMAIN_0 == 85

BULLETPROOFS_DOMAIN_1 == 66

BULLETPROOFS_DOMAIN_2 == 82

BULLETPROOFS_PLUS_DOMAIN_0 == 71

BULLETPROOFS_PLUS_DOMAIN_1 == 59

BULLETPROOFS_PLUS_DOMAIN_2 == 56

TRANSCRIPT_BASE == 70

H == 20

U == 7

(***************************************************************************)
(* Transcript  (src/include/helpers/scalar_transcript_t.h)                 *)
(***************************************************************************)

\* writer.pod(vector): length prefix followed by the elements
podV(v) == <<Len(v)>> \o v

\* update(input): state := sha3(state || input).scalar()
update1(state, a) == hash_scalar(sha3(<<state, a>>))

update2(state, a, b) == hash_scalar(sha3(<<state, a, b>>))

update3(state, a, b, c) == hash_scalar(sha3(<<state, a, b, c>>))

update4(state, a, b, c, d) == hash_scalar(sha3(<<state, a, b, c, d>>))

\* update(const std::vector<T> &)
updateV(state, v) == hash_scalar(sha3(<<state>> \o podV(v)))

\* the three-argument update instantiated with (vector, T, U)
update3_V_a_b(state, v, a, b) == hash_scalar(sha3(<<state>> \o podV(v) \o <<a, b>>))

\* the three-argument update instantiated with (T, U, vector)
update3_a_b_V(state, a, b, v) == hash_scalar(sha3(<<state, a, b>> \o podV(v)))

\* constructors: a default transcript followed by one update
transcript1(seed) == update1(TRANSCRIPT_BASE, seed)

transcript2(seed, seed2) == update2(TRANSCRIPT_BASE, seed, seed2)

transcript3(seed, seed2, seed3) == update3(TRANSCRIPT_BASE, seed, seed2, seed3)

transcript4(seed, seed2, seed3, seed4) == update4(TRANSCRIPT_BASE, seed, seed2, seed3, seed4)

\* constructor (T, U, std::vector<V>): calls update(seed3, seed, seed2)
transcript3V(seed, seed2, seed3) == update3_V_a_b(TRANSCRIPT_BASE, seed3, seed, seed2)

(***************************************************************************)
(* Transcript specification: a transcript object built by one of the       *)
(* constructors, then updated, reset and read.                             *)
(*   tr.state : the scalar held by the transcript                          *)
(*   tr.ref   : the state a default transcript reaches when update() is    *)
(*              given the same values in the order the caller wrote them   *)
(*   tr.op    : the last call, tr.out : the last challenge() returned      *)
(*   tr.n     : number of calls made after construction                    *)
(***************************************************************************)

\* largest seed value, longest seed vector and number of calls explored
MaxSeed == 3

MaxVecLen == 2

MaxCalls == 3

Seeds == 0 .. MaxSeed

SeedVecs == UNION {[1 .. n -> Seeds] : n \in 0 .. MaxVecLen}

TrInit ==
    /\ tr = [state |-> TRANSCRIPT_BASE, ref |-> TRANSCRIPT_BASE, skip |-> TRANSCRIPT_BASE,
             op |-> "none", out |-> ZERO, prevop |-> "none", prev |-> ZERO, n |-> 0]
    /\ sg = Idle /\ bor = Idle /\ cl = Idle /\ tri = Idle /\ bp = Idle /\ mn = Idle /\ ss = Idle /\ ser = Idle /\ rct = Idle /\ sc = Idle /\ gen = Idle /\ gt = Idle /\ vo = Idle /\ ip = Idle /\ gc = Idle /\ ps = Idle /\ cmp = Idle

\* tr.skip is the state of a twin transcript that receives the same
\* constructor, update and reset calls and no challenge call; tr.prevop is
\* the call before the last one and tr.prev the last scalar returned before it.
Constructed(op, state, ref) ==
    tr' = [state |-> state, ref |-> ref, skip |-> state, op |-> op, out |-> ZERO,
           prevop |-> "none", prev |-> ZERO, n |-> 0]

Construct0 ==
    /\ tr.op = "none"
    /\ Constructed("ctor0", TRANSCRIPT_BASE, TRANSCRIPT_BASE)

Construct1 ==
    /\ tr.op = "none"
    /\ \E s1 \in Seeds :
        Constructed("ctor1", transcript1(s1), update1(TRANSCRIPT_BASE, s1))

Construct2 ==
    /\ tr.op = "none"
    /\ \E s1 \in Seeds, s2 \in Seeds :
        Constructed("ctor2", transcript2(s1, s2), update2(TRANSCRIPT_BASE, s1, s2))

Construct3 ==
    /\ tr.op = "none"
    /\ \E s1 \in Seeds, s2 \in Seeds, s3 \in Seeds :
        Constructed("ctor3", transcript3(s1, s2, s3), update3(TRANSCRIPT_BASE, s1, s2, s3))

Construct4 ==
    /\ tr.op = "none"
    /\ \E s1 \in Seeds, s2 \in Seeds, s3 \in Seeds, s4 \in Seeds :
        Constructed("ctor4", transcript4(s1, s2, s3, s4), update4(TRANSCRIPT_BASE, s1, s2, s3, s4))

Construct3V ==
    /\ tr.op = "none"
    /\ \E s1 \in Seeds, s2 \in Seeds, s3 \in SeedVecs :
        Constructed("ctor3V", transcript3V(s1, s2, s3), update3_a_b_V(TRANSCRIPT_BASE, s1, s2, s3))

Called(op, state, ref, skip, out) ==
    /\ tr.op # "none"
    /\ tr.n < MaxCalls
    /\ tr' = [state |-> state, ref |-> ref, skip |-> skip, op |-> op, out |-> out,
              prevop |-> tr.op, prev |-> tr.out, n |-> tr.n + 1]

TrUpdate1 == \E a \in Seeds :
    Called("update1", update1(tr.state, a), update1(tr.ref, a), update1(tr.skip, a), tr.out)

TrUpdate2 == \E a \in Seeds, b \in Seeds :
    Called("update2", update2(tr.state, a, b), update2(tr.ref, a, b), update2(tr.skip, a, b), tr.out)

TrUpdateV == \E v \in SeedVecs :
    Called("updateV", updateV(tr.state, v), updateV(tr.ref, v), updateV(tr.skip, v), tr.out)

\* reset(): state = TRANSCRIPT_BASE
TrReset == Called("reset", TRANSCRIPT_BASE, TRANSCRIPT_BASE, TRANSCRIPT_BASE, tr.out)

\* a challenge() that would fold the returned scalar back into the state
TrChallengeAdvances == Called("challenge", update1(tr.state, tr.state), tr.ref, tr.skip, tr.state)

\* challenge(): return state
TrChallenge == Called("challenge", tr.state, tr.ref, tr.skip, tr.state)

TrNext ==
    /\ \/ Construct0 \/ Construct1 \/ Construct2 \/ Construct3 \/ Construct4 \/ Construct3V
       \/ TrUpdate1 \/ TrUpdate2 \/ TrUpdateV \/ TrReset \/ TrChallenge
    /\ UNCHANGED <<sg, bor, cl, tri, bp, mn, ss, ser, rct, sc, gen, gt, vo, ip, gc, ps, cmp>>

SpecTranscript == TrInit /\ [][TrNext]_vars

\* C10 (the claim as stated): every constructor leaves the state that a
\* default transcript followed by update(seeds in the caller's order) has,
\* also when the third seed is a vector.
C10_ConstructorCommitsInCallOrder ==
    tr.op \in {"ctor0", "ctor1", "ctor2", "ctor3", "ctor4", "ctor3V"} => tr.state = tr.ref

\* C11: challenge() leaves the state unchanged: after any sequence of update,
\* reset and challenge calls the state equals that of the twin transcript
\* that was never asked for a challenge, and the second of two challenge()
\* calls in a row returns the scalar the first one returned.
C11_ChallengeLeavesStateUnchanged ==
    /\ tr.op # "none" => tr.state = tr.skip
    /\ tr.op = "challenge" => tr.out = tr.skip
    /\ (tr.op = "challenge" /\ tr.prevop = "challenge") => tr.out = tr.prev

\* an update that follows a challenge() which itself followed an earlier call
C11_ChallengeLeavesStateUnchanged_Witness ==
    /\ tr.op \in {"update1", "update2", "updateV"}
    /\ tr.prevop = "challenge"
    /\ tr.n = 3
    /\ tr.state = tr.skip
    /\ tr.state # tr.prev

(***************************************************************************)
(* Schnorr signature  (src/signatures/signature.cpp)                       *)
(*   sg.pc : "start", "try_again" (inside prepare_signature), "signed"     *)
(*           (generate_signature returned), "checked", "threw"             *)
(***************************************************************************)

\* largest message digest and largest output of the random generator
MaxDigest == 2

MaxRand == 3

Digests == 0 .. MaxDigest

\* crypto_scalar_t::random(): any scalar of the pool, zero included
Rand == 0 .. MaxRand

check_signature(message_digest, public_key, L, R) ==
    IF ~scalar_valid(L) \/ ~scalar_valid(R) THEN FALSE
    ELSE LET point == pt_add(pt_mul(L, public_key), pt_mul(R, G))
             challenge == transcript4(SIGNATURE_DOMAIN_0, message_digest, public_key, point)
         IN  IF ~scalar_valid(challenge) THEN FALSE
             ELSE is_nonzero(sc_sub(challenge, L))

\* R -= L * signing_scalar
complete_signature(signing_scalar, L, R) == sc_sub(R, sc_mul(L, signing_scalar))

\* alpha of one pass through prepare_signature
prepare_alpha(message_digest, public_key, rnd) == transcript3(message_digest, public_key, rnd)

prepare_L(message_digest, public_key, alpha_scalar) ==
    transcript4(SIGNATURE_DOMAIN_0, message_digest, public_key, pt_mul(alpha_scalar, G))

SgInit ==
    /\ sg = [pc |-> "start", digest |-> 0, x |-> ZERO, P |-> Z, alpha |-> ZERO,
            L |-> ZERO, R |-> ZERO, retries |-> 0, ok |-> FALSE]
    /\ tr = Idle /\ bor = Idle /\ cl = Idle /\ tri = Idle /\ bp = Idle /\ mn = Idle /\ ss = Idle /\ ser = Idle /\ rct = Idle /\ sc = Idle /\ gen = Idle /\ gt = Idle /\ vo = Idle /\ ip = Idle /\ gc = Idle /\ ps = Idle /\ cmp = Idle

\* generate_signature: SCALAR_NZ_OR_THROW(secret_key); public_key = secret_key * G
SgGenerate ==
    /\ sg.pc = "start"
    /\ \E message_digest \in Digests, secret_key \in Scalars :
        IF ~scalar_valid(secret_key)
        THEN sg' = [sg EXCEPT !.pc = "threw", !.digest = message_digest, !.x = secret_key]
        ELSE sg' = [sg EXCEPT !.pc = "try_again", !.digest = message_digest,
                              !.x = secret_key, !.P = pt_mul(secret_key, G)]

\* one pass from the label try_again: either back to the label, or out of
\* prepare_signature and through complete_signature
SgAttempt ==
    /\ sg.pc = "try_again"
    /\ \E rnd \in Rand :
        LET alpha_scalar == prepare_alpha(sg.digest, sg.P, rnd)
            L == prepare_L(sg.digest, sg.P, alpha_scalar)
        IN  IF ~scalar_valid(alpha_scalar) \/ ~scalar_valid(L)
            THEN /\ sg.retries < MaxRetries
                 /\ sg' = [sg EXCEPT !.retries = sg.retries + 1]
            ELSE sg' = [sg EXCEPT !.pc = "signed", !.alpha = alpha_scalar, !.L = L,
                                  !.R = complete_signature(sg.x, L, alpha_scalar)]

SgCheck ==
    /\ sg.pc = "signed"
    /\ sg' = [sg EXCEPT !.pc = "checked", !.ok = check_signature(sg.digest, sg.P, sg.L, sg.R)]

SgNext == (SgGenerate \/ SgAttempt \/ SgCheck) /\ UNCHANGED <<tr, bor, cl, tri, bp, mn, ss, ser, rct, sc, gen, gt, vo, ip, gc, ps, cmp>>

SpecSignature == SgInit /\ [][SgNext]_vars

\* C8 (the claim as stated): the signature generate_signature returns for a
\* digest and a nonzero secret key x is accepted by check_signature under
\* P = x*G.
C8_GeneratedSignatureAccepted == sg.pc = "checked" => sg.ok

(***************************************************************************)
(* Key images and key sets  (src/crypto_common.cpp,                        *)
(* src/include/helpers/dedupe_and_sort_keys.h)                             *)
(***************************************************************************)

\* Hp(P) = sha3(P).point()
HP(P) == hash_point(sha3(<<P>>))

\* I = [Hp(P) * x] mod l  (after SCALAR_NZ_OR_THROW(secret_ephemeral))
generate_key_image(public_ephemeral, secret_ephemeral) ==
    pt_mul(secret_ephemeral, HP(public_ephemeral))

\* number of keys left by dedupe_and_sort_keys
dedupe_size(keys) == Cardinality({keys[i] : i \in 1 .. Len(keys)})

\* position of the first key equal to P, 0-based; -1 if there is none
RECURSIVE find_key(_, _, _)
find_key(keys, P, i) ==
    IF i > Len(keys) THEN -1
    ELSE IF keys[i] = P THEN i - 1
    ELSE find_key(keys, P, i + 1)

(***************************************************************************)
(* Borromean ring signature  (src/signatures/ring_signature_borromean.cpp) *)
(*   a signature is a sequence of pairs <<L, R>>                           *)
(*   bor.pc : "start", "try_again" (inside prepare_ring_signature),        *)
(*            "returned" (generate_ring_signature returned), "checked"     *)
(*   bor.success    : the bool of the returned tuple                       *)
(*   bor.zero_nonce : the call returned from the test of a zero alpha      *)
(***************************************************************************)

\* largest ring and largest secret key explored
MaxRing == 2

MaxKey == 3

Rings == UNION {[1 .. n -> {pt_mul(k, G) : k \in 1 .. MaxKey}] : n \in 1 .. MaxRing}

\* transcript.update(L, R) for i = from .. ring_size
RECURSIVE update_LR(_, _, _, _)
update_LR(state, Ls, Rs, from) ==
    IF from > Len(Ls) THEN state
    ELSE update_LR(update2(state, Ls[from], Rs[from]), Ls, Rs, from + 1)

\* sum of s[i].L over the positions of the set
RECURSIVE sum_L(_, _)
sum_L(signature, positions) ==
    IF positions = {} THEN ZERO
    ELSE LET i == CHOOSE j \in positions : TRUE
         IN  sc_add(signature[i][1], sum_L(signature, positions \ {i}))

borromean_check_construction(signature, ring_size) ==
    /\ Len(signature) = ring_size
    /\ \A i \in 1 .. Len(signature) :
        scalar_valid(signature[i][1]) /\ scalar_valid(signature[i][2])

borromean_challenge(message_digest, key_image, public_keys, signature) ==
    LET n == Len(public_keys)
        Ls == [i \in 1 .. n |-> dbl_mult(signature[i][1], public_keys[i], signature[i][2], G)]
        Rs == [i \in 1 .. n |-> dbl_mult(signature[i][2], HP(public_keys[i]), signature[i][1], key_image)]
    IN  update_LR(transcript2(BORROMEAN_DOMAIN_0, message_digest), Ls, Rs, 1)

borromean_check(message_digest, key_image, public_keys, signature) ==
    IF dedupe_size(public_keys) # Len(public_keys) THEN FALSE
    ELSE IF ~borromean_check_construction(signature, Len(public_keys)) THEN FALSE
    ELSE IF ~check_subgroup(key_image) THEN FALSE
    ELSE LET challenge == borromean_challenge(message_digest, key_image, public_keys, signature)
         IN  IF ~scalar_valid(challenge) THEN FALSE
             ELSE is_nonzero(sc_sub(challenge, sum_L(signature, 1 .. Len(signature))))

\* alpha of one pass through prepare_ring_signature
borromean_alpha(message_digest, key_image, public_keys, rnd) ==
    updateV(transcript3(message_digest, key_image, rnd), public_keys)

\* challenge of one pass: the real position commits to alpha, the others to
\* their random pairs
borromean_prepare_challenge(message_digest, key_image, public_keys, real, alpha_scalar, signature) ==
    LET n == Len(public_keys)
        Ls == [i \in 1 .. n |->
                IF i = real + 1 THEN pt_mul(alpha_scalar, G)
                ELSE dbl_mult(signature[i][1], public_keys[i], signature[i][2], G)]
        Rs == [i \in 1 .. n |->
                IF i = real + 1 THEN pt_mul(alpha_scalar, HP(public_keys[i]))
                ELSE dbl_mult(signature[i][2], HP(public_keys[i]), signature[i][1], key_image)]
    IN  update_LR(transcript2(BORROMEAN_DOMAIN_0, message_digest), Ls, Rs, 1)

\* complete_ring_signature: TRUE when it returns {true, ...}
borromean_complete_ok(signing_scalar, real, signature) ==
    /\ Len(signature) > 0 /\ real < Len(signature)
    /\ scalar_valid(signing_scalar)
    /\ \A i \in 1 .. Len(signature) :
        scalar_valid(signature[i][1]) /\ scalar_valid(signature[i][2])

borromean_complete(signing_scalar, real, signature) ==
    [signature EXCEPT ![real + 1] =
        <<signature[real + 1][1],
          sc_sub(signature[real + 1][2], sc_mul(signature[real + 1][1], signing_scalar))>>]

BorInit ==
    /\ bor = [pc |-> "start", digest |-> 0, x |-> ZERO, keys |-> <<>>, real |-> 0,
            I |-> Z, signature |-> <<>>, retries |-> 0, success |-> FALSE,
            zero_nonce |-> FALSE, ok |-> FALSE]
    /\ tr = Idle /\ sg = Idle /\ cl = Idle /\ tri = Idle /\ bp = Idle /\ mn = Idle /\ ss = Idle /\ ser = Idle /\ rct = Idle /\ sc = Idle /\ gen = Idle /\ gt = Idle /\ vo = Idle /\ ip = Idle /\ gc = Idle /\ ps = Idle /\ cmp = Idle

\* generate_ring_signature up to the call of prepare_ring_signature, and the
\* argument checks of prepare_ring_signature above the label try_again
BorGenerate ==
    /\ bor.pc = "start"
    /\ \E message_digest \in Digests, secret_ephemeral \in 0 .. MaxKey, public_keys \in Rings :
        LET real_output_index == find_key(public_keys, pt_mul(secret_ephemeral, G), 1)
            key_image == generate_key_image(pt_mul(secret_ephemeral, G), secret_ephemeral)
            called == [bor EXCEPT !.digest = message_digest, !.x = secret_ephemeral,
                                  !.keys = public_keys]
        IN  IF \/ ~scalar_valid(secret_ephemeral)
               \/ dedupe_size(public_keys) # Len(public_keys)
               \/ real_output_index = -1
               \/ ~check_subgroup(key_image)
            THEN bor' = [called EXCEPT !.pc = "returned", !.success = FALSE]
            ELSE bor' = [called EXCEPT !.pc = "try_again", !.real = real_output_index,
                                       !.I = key_image]

\* one pass from the label try_again of prepare_ring_signature; when it
\* leaves prepare_ring_signature, generate_ring_signature goes on through
\* complete_ring_signature and returns
BorAttempt ==
    /\ bor.pc = "try_again"
    /\ \E rnd \in Rand, drawn \in [1 .. Len(bor.keys) -> Rand \X Rand] :
        LET alpha_scalar == borromean_alpha(bor.digest, bor.I, bor.keys, rnd)
            challenge == borromean_prepare_challenge(bor.digest, bor.I, bor.keys, bor.real,
                                                     alpha_scalar, drawn)
            sum == sum_L(drawn, (1 .. Len(drawn)) \ {bor.real + 1})
            prepared == [drawn EXCEPT ![bor.real + 1] = <<sc_sub(challenge, sum), alpha_scalar>>]
        IN  IF alpha_scalar = ZERO
            THEN bor' = [bor EXCEPT !.pc = "returned", !.success = FALSE, !.zero_nonce = TRUE]
            ELSE IF ~scalar_valid(challenge)
            THEN /\ bor.retries < MaxRetries
                 /\ bor' = [bor EXCEPT !.retries = bor.retries + 1]
            ELSE IF ~borromean_complete_ok(bor.x, bor.real, prepared)
            THEN bor' = [bor EXCEPT !.pc = "returned", !.success = FALSE]
            ELSE bor' = [bor EXCEPT !.pc = "returned", !.success = TRUE,
                                    !.signature = borromean_complete(bor.x, bor.real, prepared)]

BorCheck ==
    /\ bor.pc = "returned"
    /\ bor.success
    /\ bor' = [bor EXCEPT !.pc = "checked",
                          !.ok = borromean_check(bor.digest, bor.I, bor.keys, bor.signature)]

BorNext == (BorGenerate \/ BorAttempt \/ BorCheck) /\ UNCHANGED <<tr, sg, cl, tri, bp, mn, ss, ser, rct, sc, gen, gt, vo, ip, gc, ps, cmp>>

SpecBorromean == BorInit /\ [][BorNext]_vars

\* C9 (the claim as stated): in a signing path, a derived nonce that comes
\* out zero makes the signer try again with fresh randomness; it never makes
\* the signing call return failure to the caller.
C9_ZeroNonceNeverReturnsFailure ==
    bor.pc = "returned" /\ bor.zero_nonce => bor.success

(***************************************************************************)
(* Pedersen commitments  (src/proofs/ringct.cpp)                           *)
(***************************************************************************)

\* INV_EIGHT * (amount * H + blinding_factor * G)
generate_pedersen_commitment(blinding_factor, amount) ==
    pt_mul(INV_EIGHT, dbl_mult(amount % l, H, blinding_factor, G))

(***************************************************************************)
(* CLSAG ring signature  (src/signatures/ring_signature_clsag.cpp)         *)
(*   a signature is a record [scalars, challenge, commitment_image,        *)
(*   pseudo_commitment]; a context c carries the values every round of     *)
(*   the challenge loop reads                                              *)
(***************************************************************************)

\* mu_P (domain CLSAG_DOMAIN_0) and mu_C (domain CLSAG_DOMAIN_2)
clsag_mu(domain, key_image, public_keys, use_commitments, commitment_image, commitments, pseudo_commitment) ==
    LET t1 == updateV(transcript2(domain, key_image), public_keys)
    IN  IF use_commitments
        THEN update1(updateV(update1(t1, commitment_image), commitments), pseudo_commitment)
        ELSE t1

\* the transcript state shared by all rounds
clsag_round_base(message_digest, public_keys, use_commitments, commitments, pseudo_commitment) ==
    LET t1 == updateV(transcript2(CLSAG_DOMAIN_1, message_digest), public_keys)
    IN  IF use_commitments THEN update1(updateV(t1, commitments), pseudo_commitment) ELSE t1

\* challenge of the round at position idx (0-based) entered with temp_h
clsag_round(c, scalars, idx, temp_h) ==
    LET r == sc_mul(temp_h, c.mu_P)
        L0 == dbl_mult(r, c.public_keys[idx + 1], scalars[idx + 1], G)
        R0 == dbl_mult(scalars[idx + 1], HP(c.public_keys[idx + 1]), r, c.key_image)
        r2 == sc_mul(temp_h, c.mu_C)
        C == pt_mul(EIGHT, pt_sub(c.commitments[idx + 1], c.pseudo_commitment))
        L == IF c.use_commitments THEN pt_add(L0, pt_mul(r2, C)) ELSE L0
        R == IF c.use_commitments THEN pt_add(R0, pt_mul(r2, c.commitment_image)) ELSE R0
    IN  update2(c.base, L, R)

\* the verifier's loop over i = from .. ring_size - 1; the value left in
\* h[0], or ZERO when a round's challenge is not valid
RECURSIVE clsag_check_loop(_, _, _, _)
clsag_check_loop(c, scalars, i, temp_h) ==
    IF i = Len(c.public_keys) THEN temp_h
    ELSE LET challenge == clsag_round(c, scalars, i, temp_h)
         IN  IF ~scalar_valid(challenge) THEN ZERO
             ELSE clsag_check_loop(c, scalars, i + 1, challenge)

clsag_check_construction(signature, ring_size, use_commitments) ==
    /\ Len(signature.scalars) = ring_size
    /\ scalar_valid(signature.challenge)
    /\ \A i \in 1 .. Len(signature.scalars) : scalar_valid(signature.scalars[i])
    /\ use_commitments => check_subgroup(signature.commitment_image)

clsag_check(message_digest, key_image, public_keys, signature, commitments) ==
    LET use_commitments ==
            /\ point_valid(signature.commitment_image)
            /\ Len(commitments) = Len(public_keys)
            /\ point_valid(signature.pseudo_commitment)
        mu_P == clsag_mu(CLSAG_DOMAIN_0, key_image, public_keys, use_commitments,
                         signature.commitment_image, commitments, signature.pseudo_commitment)
        mu_C == IF use_commitments
                THEN clsag_mu(CLSAG_DOMAIN_2, key_image, public_keys, use_commitments,
                              signature.commitment_image, commitments, signature.pseudo_commitment)
                ELSE ZERO
        c == [public_keys |-> public_keys, key_image |-> key_image,
              use_commitments |-> use_commitments, commitments |-> commitments,
              pseudo_commitment |-> signature.pseudo_commitment,
              commitment_image |-> signature.commitment_image, mu_P |-> mu_P, mu_C |-> mu_C,
              base |-> clsag_round_base(message_digest, public_keys, use_commitments,
                                        commitments, signature.pseudo_commitment)]
    IN  IF dedupe_size(public_keys) # Len(public_keys) THEN FALSE
        ELSE IF ~clsag_check_construction(signature, Len(public_keys), use_commitments) THEN FALSE
        ELSE IF ~check_subgroup(key_image) THEN FALSE
        ELSE IF ~scalar_valid(mu_P) THEN FALSE
        ELSE IF use_commitments /\ ~scalar_valid(mu_C) THEN FALSE
        ELSE clsag_check_loop(c, signature.scalars, 0, signature.challenge) = signature.challenge

\* the signer's loop over i = from .. stop - 1 (positions taken mod
\* ring_size); the challenges h, or <<>> when a round's challenge is not
\* valid
RECURSIVE clsag_prepare_loop(_, _, _, _, _)
clsag_prepare_loop(c, scalars, h, i, stop) ==
    IF i = stop THEN h
    ELSE LET ring_size == Len(c.public_keys)
             idx == i % ring_size
             challenge == clsag_round(c, scalars, idx, h[idx + 1])
         IN  IF ~scalar_valid(challenge) THEN <<>>
             ELSE clsag_prepare_loop(c, scalars,
                                     [h EXCEPT ![((idx + 1) % ring_size) + 1] = challenge],
                                     i + 1, stop)

clsag_use_commitments(in) ==
    /\ scalar_valid(in.input_blinding_factor)
    /\ Len(in.public_commitments) = Len(in.public_keys)
    /\ scalar_valid(in.pseudo_blinding_factor)
    /\ point_valid(in.pseudo_commitment)

clsag_alpha(in, key_image, rnd) ==
    updateV(update3(transcript3(in.message_digest, key_image, rnd),
                    in.input_blinding_factor, in.pseudo_blinding_factor, in.pseudo_commitment),
            in.public_commitments)

ClsagNone == [scalars |-> <<>>, challenge |-> ZERO, commitment_image |-> Z, pseudo_commitment |-> Z]

ClsagOut(outcome, signature, h, mu_P) ==
    [outcome |-> outcome, signature |-> signature, h |-> h, mu_P |-> mu_P]

\* one pass through prepare_ring_signature from the label try_again, with
\* rnd and drawn the values random() returns on it.  outcome: "try_again",
\* "false" (return {false, ...}), "threw" (generate_key_image raised) or
\* "true" (return {true, signature, h, mu_P})
clsag_prepare(in, key_image, real, rnd, drawn) ==
    LET ring_size == Len(in.public_keys)
        use_commitments == clsag_use_commitments(in)
        alpha_scalar == clsag_alpha(in, key_image, rnd)
        z == sc_sub(in.input_blinding_factor, in.pseudo_blinding_factor)
        commitment == pt_mul(EIGHT, pt_sub(in.public_commitments[real + 1], in.pseudo_commitment))
        commitment_image == IF use_commitments
                            THEN generate_key_image(in.public_keys[real + 1], z) ELSE Z
        mu_P == clsag_mu(CLSAG_DOMAIN_0, key_image, in.public_keys, use_commitments,
                         commitment_image, in.public_commitments, in.pseudo_commitment)
        mu_C == IF use_commitments
                THEN clsag_mu(CLSAG_DOMAIN_2, key_image, in.public_keys, use_commitments,
                              commitment_image, in.public_commitments, in.pseudo_commitment)
                ELSE ZERO
        c == [public_keys |-> in.public_keys, key_image |-> key_image,
              use_commitments |-> use_commitments, commitments |-> in.public_commitments,
              pseudo_commitment |-> in.pseudo_commitment,
              commitment_image |-> commitment_image, mu_P |-> mu_P, mu_C |-> mu_C,
              base |-> clsag_round_base(in.message_digest, in.public_keys, use_commitments,
                                        in.public_commitments, in.pseudo_commitment)]
        first == update2(c.base, pt_mul(alpha_scalar, G),
                         pt_mul(alpha_scalar, HP(in.public_keys[real + 1])))
        h1 == [[i \in 1 .. ring_size |-> ZERO] EXCEPT ![((real + 1) % ring_size) + 1] = first]
        h == IF ring_size > 1
             THEN clsag_prepare_loop(c, drawn, h1, real + 1, real + ring_size) ELSE h1
        s_real == IF use_commitments
                  THEN sc_sub(alpha_scalar, sc_mul(sc_mul(h[real + 1], z), mu_C))
                  ELSE alpha_scalar
    IN  IF ~scalar_valid(alpha_scalar) THEN ClsagOut("try_again", ClsagNone, <<>>, ZERO)
        ELSE IF use_commitments /\ commitment # pt_mul(z, G) THEN ClsagOut("false", ClsagNone, <<>>, ZERO)
        ELSE IF use_commitments /\ ~scalar_valid(z) THEN ClsagOut("threw", ClsagNone, <<>>, ZERO)
        ELSE IF ~scalar_valid(mu_P) THEN ClsagOut("false", ClsagNone, <<>>, ZERO)
        ELSE IF use_commitments /\ ~scalar_valid(mu_C) THEN ClsagOut("false", ClsagNone, <<>>, ZERO)
        ELSE IF ~scalar_valid(first) THEN ClsagOut("try_again", ClsagNone, <<>>, ZERO)
        ELSE IF h = <<>> THEN ClsagOut("false", ClsagNone, <<>>, ZERO)
        ELSE ClsagOut("true",
                      [scalars |-> [drawn EXCEPT ![real + 1] = s_real], challenge |-> h[1],
                       commitment_image |-> commitment_image,
                       pseudo_commitment |-> in.pseudo_commitment],
                      h, mu_P)

\* complete_ring_signature: TRUE when it returns {true, ...}
clsag_complete_ok(signing_scalar, real, signature, h, mu_P) ==
    /\ Len(signature.scalars) > 0 /\ real < Len(signature.scalars)
    /\ Len(h) = Len(signature.scalars)
    /\ scalar_valid(signing_scalar) /\ scalar_valid(signature.challenge) /\ scalar_valid(mu_P)
    /\ \A i \in 1 .. Len(signature.scalars) : scalar_valid(signature.scalars[i])
    /\ \A i \in 1 .. Len(h) : scalar_valid(h[i])

\* complete_ring_signature taking the prepared scalars for the finished ones
clsag_complete_untouched(signing_scalar, real, signature, h, mu_P) == signature

\* finalized_signature[real_output_index] -= h[real_output_index] * (mu_P * signing_scalar)
clsag_complete(signing_scalar, real, signature, h, mu_P) ==
    [signature EXCEPT !.scalars[real + 1] =
        sc_sub(signature.scalars[real + 1], sc_mul(h[real + 1], sc_mul(mu_P, signing_scalar)))]

\* generate_ring_signature's search for the real position (0-based); -1 if
\* there is none
RECURSIVE clsag_find_real(_, _, _)
clsag_find_real(in, public_ephemeral, i) ==
    IF i > Len(in.public_keys) THEN -1
    ELSE LET public_commitment ==
                 pt_mul(sc_sub(in.input_blinding_factor, in.pseudo_blinding_factor), G)
             derived_commitment ==
                 pt_mul(EIGHT, pt_sub(in.public_commitments[i], in.pseudo_commitment))
             found == IF clsag_use_commitments(in)
                      THEN public_ephemeral = in.public_keys[i]
                           /\ public_commitment = derived_commitment
                      ELSE public_ephemeral = in.public_keys[i]
         IN  IF found THEN i - 1 ELSE clsag_find_real(in, public_ephemeral, i + 1)

\* largest blinding factor and largest amount of the callers explored
MaxBlinding == 2

MaxAmount == 1

\* arguments of a caller who signs without commitments (the defaults)
ClsagPlainInputs ==
    {[message_digest |-> d, secret_ephemeral |-> x, public_keys |-> keys,
      input_blinding_factor |-> ZERO, public_commitments |-> <<>>,
      pseudo_blinding_factor |-> ZERO, pseudo_commitment |-> Z] :
        d \in Digests, x \in 1 .. MaxKey, keys \in Rings}

\* arguments of a caller who owns the commitment to amount a under
\* blinding factor bf and signs for a pseudo commitment to the same amount
\* under blinding factor pbf
ClsagCommitInputs ==
    UNION {{[message_digest |-> d, secret_ephemeral |-> x, public_keys |-> keys,
             input_blinding_factor |-> bf,
             public_commitments |->
                [i \in 1 .. Len(keys) |->
                    IF keys[i] = pt_mul(x, G) THEN generate_pedersen_commitment(bf, a)
                    ELSE decoys[i]],
             pseudo_blinding_factor |-> pbf,
             pseudo_commitment |-> generate_pedersen_commitment(pbf, a)] :
                decoys \in [1 .. Len(keys) ->
                    {generate_pedersen_commitment(MaxBlinding + 1, c) : c \in 0 .. MaxAmount}]} :
        d \in Digests, x \in 1 .. MaxKey, keys \in Rings,
        bf \in 1 .. MaxBlinding, pbf \in 1 .. MaxBlinding, a \in 0 .. MaxAmount}

ClInit ==
    /\ cl = [pc |-> "start", in |-> [message_digest |-> 0], real |-> 0, I |-> Z,
            signature |-> ClsagNone, retries |-> 0, success |-> FALSE, ok |-> FALSE,
            alpha |-> ZERO, h |-> <<>>, mu_P |-> ZERO]
    /\ tr = Idle /\ sg = Idle /\ bor = Idle /\ tri = Idle /\ bp = Idle /\ mn = Idle /\ ss = Idle /\ ser = Idle /\ rct = Idle /\ sc = Idle /\ gen = Idle /\ gt = Idle /\ vo = Idle /\ ip = Idle /\ gc = Idle /\ ps = Idle /\ cmp = Idle

\* generate_ring_signature up to the call of prepare_ring_signature, and the
\* argument checks of prepare_ring_signature above the label try_again
ClGenerate ==
    /\ cl.pc = "start"
    /\ \E in \in ClsagPlainInputs \cup ClsagCommitInputs :
        LET public_ephemeral == pt_mul(in.secret_ephemeral, G)
            real_output_index == clsag_find_real(in, public_ephemeral, 1)
            key_image == generate_key_image(public_ephemeral, in.secret_ephemeral)
        IN  IF \/ ~scalar_valid(in.secret_ephemeral)
               \/ dedupe_size(in.public_keys) # Len(in.public_keys)
               \/ real_output_index = -1
               \/ ~check_subgroup(key_image)
            THEN cl' = [cl EXCEPT !.pc = "returned", !.in = in, !.success = FALSE]
            ELSE cl' = [cl EXCEPT !.pc = "try_again", !.in = in, !.real = real_output_index,
                                  !.I = key_image]

\* one pass from the label try_again of prepare_ring_signature; when it
\* leaves prepare_ring_signature with success, generate_ring_signature goes on
\* through complete_ring_signature and returns
ClAttempt ==
    /\ cl.pc = "try_again"
    /\ \E rnd \in Rand, drawn \in [1 .. Len(cl.in.public_keys) -> Rand] :
        LET p == clsag_prepare(cl.in, cl.I, cl.real, rnd, drawn)
        IN  CASE p.outcome = "try_again" ->
                    /\ cl.retries < MaxRetries
                    /\ cl' = [cl EXCEPT !.retries = cl.retries + 1]
              [] p.outcome = "threw" -> cl' = [cl EXCEPT !.pc = "threw"]
              [] p.outcome = "false" -> cl' = [cl EXCEPT !.pc = "returned", !.success = FALSE]
              [] p.outcome = "true" ->
                    IF clsag_complete_ok(cl.in.secret_ephemeral, cl.real, p.signature, p.h, p.mu_P)
                    THEN cl' = [cl EXCEPT !.pc = "returned", !.success = TRUE,
                                    !.signature = clsag_complete(cl.in.secret_ephemeral, cl.real,
                                                                 p.signature, p.h, p.mu_P),
                                    !.alpha = clsag_alpha(cl.in, cl.I, rnd),
                                    !.h = p.h, !.mu_P = p.mu_P]
                    ELSE cl' = [cl EXCEPT !.pc = "returned", !.success = FALSE]

ClCheck ==
    /\ cl.pc = "returned"
    /\ cl.success
    /\ cl' = [cl EXCEPT !.pc = "checked",
                        !.ok = clsag_check(cl.in.message_digest, cl.I, cl.in.public_keys,
                                           cl.signature, cl.in.public_commitments)]

ClNext == (ClGenerate \/ ClAttempt \/ ClCheck) /\ UNCHANGED <<tr, sg, bor, tri, bp, mn, ss, ser, rct, sc, gen, gt, vo, ip, gc, ps, cmp>>

SpecCLSAG == ClInit /\ [][ClNext]_vars

\* C24: after prepare_ring_signature followed by complete_ring_signature with
\* the secret x at the real index, the scalar of the real slot is
\* alpha - h*mu_P*x - h*mu_C*z with h the challenge of the real slot and
\* z = input_blinding_factor - pseudo_blinding_factor; without commitments
\* the mu_C*z term is absent
C24_RealSlotScalar ==
    (cl.pc \in {"returned", "checked"} /\ cl.success) =>
        LET in == cl.in
            use_commitments == clsag_use_commitments(in)
            z == sc_sub(in.input_blinding_factor, in.pseudo_blinding_factor)
            mu_C == clsag_mu(CLSAG_DOMAIN_2, cl.I, in.public_keys, use_commitments,
                             cl.signature.commitment_image, in.public_commitments,
                             in.pseudo_commitment)
            h_real == cl.h[cl.real + 1]
            key_term == sc_mul(sc_mul(h_real, cl.mu_P), in.secret_ephemeral)
            commitment_term == sc_mul(sc_mul(h_real, mu_C), z)
        IN  cl.signature.scalars[cl.real + 1] =
                IF use_commitments
                THEN sc_sub(sc_sub(cl.alpha, key_term), commitment_term)
                ELSE sc_sub(cl.alpha, key_term)

\* a signature with commitments was completed, and both terms taken from
\* alpha at the real slot are non-zero
C24_RealSlotScalar_Witness ==
    /\ cl.pc = "returned" /\ cl.success
    /\ clsag_use_commitments(cl.in)
    /\ cl.in.input_blinding_factor # cl.in.pseudo_blinding_factor
    /\ cl.signature.scalars[cl.real + 1] # cl.alpha
    /\ cl.signature.scalars[cl.real + 1] #
           sc_sub(cl.alpha, sc_mul(sc_mul(cl.h[cl.real + 1], cl.mu_P), cl.in.secret_ephemeral))

\* C7 (the claim as stated): the CLSAG signature generate_ring_signature
\* returns, for a ring of distinct keys holding the signer's key at any
\* position, with or without commitments, closes the verifier's challenge
\* loop, so check_ring_signature returns true (and the call that was to
\* return it did not raise).
C7_GeneratedRingSignatureAccepted ==
    /\ cl.pc # "threw"
    /\ cl.pc = "checked" => cl.ok

(***************************************************************************)
(* Helpers of src/crypto_common.cpp and the Gray code generator            *)
(* (src/helpers/gray_code_generator_t.cpp)                                 *)
(***************************************************************************)

\* sum mod l of the values of f over the index set S
RECURSIVE SumOver(_, _)
SumOver(f, S) ==
    IF S = {} THEN 0
    ELSE LET e == CHOOSE e \in S : TRUE
         IN  (f[e] + SumOver(f, S \ {e})) % l

\* product mod l of the values of f over the index set S
RECURSIVE ProdOver(_, _)
ProdOver(f, S) ==
    IF S = {} THEN 1
    ELSE LET e == CHOOSE e \in S : TRUE
         IN  (f[e] * ProdOver(f, S \ {e})) % l

\* number of right shifts that bring value to zero
RECURSIVE bit_length(_)
bit_length(value) == IF value = 0 THEN 0 ELSE 1 + bit_length(value \div 2)

\* value && !(value & (value - 1))
is_power_of_two(value) == value > 0 /\ 2 ^ (bit_length(value) - 1) = value

\* pow2_round without the test for a value that is a power of two already
pow2_round_always_up(value) == 2 ^ bit_length(value)

pow2_round(value) == IF is_power_of_two(value) THEN value ELSE 2 ^ bit_length(value)

\* <<found, exponent>>
calculate_base2_exponent(target_value) ==
    IF pow2_round(target_value) # target_value THEN <<FALSE, 0>>
    ELSE <<TRUE, bit_length(target_value) - 1>>

commitment_tensor_point(point, i, j, k) == hash_point(sha3(<<point, i, j, k>>))

\* product of the polynomial x by the degree-one polynomial y
convolve(x, y) ==
    [t \in 1 .. Len(x) + 1 |->
        sc_add(IF t <= Len(x) THEN sc_mul(x[t], y[1]) ELSE ZERO,
               IF t >= 2 THEN sc_mul(x[t - 1], y[2]) ELSE ZERO)]

kronecker_delta(a, b) == IF a = b THEN ONE ELSE ZERO

\* generate() stepping the lowest digit round and round
gray_next_lowest_digit(N, g, u, i) == <<0, u, (g[1] + 1) % N>>

\* the digit to change in generate(): <<i, u, k>> after the while loop
RECURSIVE gray_next(_, _, _, _)
gray_next(N, g, u, i) ==
    LET k == g[i + 1] + u[i + 1]
    IN  IF k >= N \/ k < 0
        THEN gray_next(N, g, [u EXCEPT ![i + 1] = -u[i + 1]], i + 1)
        ELSE <<i, u, k>>

\* generate(): the loop from idx on; [changed, v_changed] at its end
RECURSIVE gray_generate(_, _, _, _, _, _, _, _)
gray_generate(N, K, v, idx, g, u, changed, v_changed) ==
    IF idx >= N ^ K - 1 THEN [changed |-> changed, v_changed |-> v_changed]
    ELSE LET seen == IF idx = v THEN [j \in 1 .. K |-> g[j]] ELSE v_changed
             nxt == gray_next(N, g, u, 0)
         IN  gray_generate(N, K, v, idx + 1, [g EXCEPT ![nxt[1] + 1] = nxt[3]], nxt[2],
                           Append(changed, <<nxt[1], g[nxt[1] + 1], nxt[3]>>), seen)

\* constructor: g = 0, u = 1 (K + 1 entries), changed = {{0, 0, 0}}
gray_code_generator_t(N, K, v) ==
    gray_generate(N, K, v, 0, [i \in 1 .. K + 1 |-> 0], [i \in 1 .. K + 1 |-> 1],
                  <<<<0, 0, 0>>>>, <<>>)

\* the digits decomp_k after the updates changed[0 .. k]
RECURSIVE decomp_at(_, _, _)
decomp_at(changed, k, m) ==
    IF k < 0 THEN [j \in 1 .. m |-> 0]
    ELSE [decomp_at(changed, k - 1, m) EXCEPT ![changed[k + 1][1] + 1] = changed[k + 1][3]]

(***************************************************************************)
(* Triptych ring signature  (src/signatures/ring_signature_triptych.cpp)   *)
(*   n = 2 digits, m = log2 of the ring size; a matrix is a sequence of m  *)
(*   rows of scalars                                                       *)
(***************************************************************************)

\* I = 1/x * U
generate_key_image_v2(secret_ephemeral) == pt_mul(invert(secret_ephemeral), U)

\* sum of v[i][j] * Hp(TRIPTYCH_DOMAIN_1, i, j) plus r * H
commitment_tensor(v, r) ==
    LET cells == {<<i, j>> : i \in 1 .. Len(v), j \in 1 .. 2}
    IN  pt_add(SumOver([c \in cells |->
                          pt_mul(v[c[1]][c[2]],
                                 commitment_tensor_point(TRIPTYCH_DOMAIN_1, c[1] - 1, c[2] - 1, 0))],
                       cells),
               pt_mul(r, H))

\* P[i] + mu * (EIGHT * (C[i] - pseudo_commitment)), i 1-based
triptych_member(public_keys, commitments, pseudo_commitment, mu, i) ==
    pt_add(public_keys[i], pt_mul(mu, pt_mul(EIGHT, pt_sub(commitments[i], pseudo_commitment))))

\* the two challenges <<mu, x>> of the transcript
triptych_mu(message_digest, public_keys, commitments, key_image, sig) ==
    update1(update1(update1(update1(update1(update1(update1(
        updateV(updateV(transcript2(TRIPTYCH_DOMAIN_0, message_digest), public_keys), commitments),
        sig.pseudo_commitment), key_image), sig.commitment_image), sig.A), sig.B), sig.C), sig.D)

triptych_x(mu, X, Y) == updateV(updateV(mu, X), Y)

triptych_check_construction(sig, m) ==
    /\ point_valid(sig.A) /\ point_valid(sig.B) /\ point_valid(sig.C) /\ point_valid(sig.D)
    /\ Len(sig.X) = m /\ Len(sig.Y) = m /\ Len(sig.f) = m
    /\ \A j \in 1 .. Len(sig.X) : point_valid(sig.X[j])
    /\ \A j \in 1 .. Len(sig.Y) : point_valid(sig.Y[j])
    /\ scalar_valid(sig.zA) /\ scalar_valid(sig.zC) /\ scalar_valid(sig.z)
    /\ \A j \in 1 .. Len(sig.f) : Len(sig.f[j]) = 1 /\ scalar_valid(sig.f[j][1])
    /\ check_subgroup(sig.commitment_image)

\* the factor t of the verifier at Gray code step k
RECURSIVE triptych_t(_, _, _)
triptych_t(f, changed, k) ==
    IF k = 0 THEN ProdOver([j \in DOMAIN f |-> f[j][1]], DOMAIN f)
    ELSE LET gray_update == changed[k + 1]
         IN  sc_mul(triptych_t(f, changed, k - 1),
                    sc_mul(invert(f[gray_update[1] + 1][gray_update[2] + 1]),
                           f[gray_update[1] + 1][gray_update[3] + 1]))

triptych_check(message_digest, key_image, public_keys, sig, commitments) ==
    LET e == calculate_base2_exponent(Len(public_keys))
        m == e[2]
        mu == triptych_mu(message_digest, public_keys, commitments, key_image, sig)
        x == triptych_x(mu, sig.X, sig.Y)
        f == [j \in 1 .. m |-> <<sc_sub(x, sig.f[j][1]), sig.f[j][1]>>]
        fx == [j \in 1 .. m |-> [i \in 1 .. 2 |-> sc_mul(f[j][i], sc_sub(x, f[j][i]))]]
        changed == gray_code_generator_t(2, m, -1).changed
        ks == 1 .. Len(changed)
        ts == [k \in ks |-> triptych_t(f, changed, k - 1)]
        js == 1 .. m
        RX == pt_sub(pt_sub(
                  SumOver([k \in ks |-> pt_mul(ts[k], triptych_member(public_keys, commitments,
                                                                      sig.pseudo_commitment, mu, k))], ks),
                  SumOver([j \in js |-> pt_mul(pow(x, j - 1), sig.X[j])], js)),
                  pt_mul(sig.z, G))
        RY == pt_sub(pt_sub(
                  SumOver([k \in ks |-> pt_mul(ts[k], pt_add(U, pt_mul(mu, sig.commitment_image)))], ks),
                  SumOver([j \in js |-> pt_mul(pow(x, j - 1), sig.Y[j])], js)),
                  pt_mul(sig.z, key_image))
    IN  IF dedupe_size(public_keys) # Len(public_keys) THEN FALSE
        ELSE IF ~e[1] \/ m < 2 THEN FALSE
        ELSE IF Len(public_keys) # Len(commitments) THEN FALSE
        ELSE IF ~check_subgroup(key_image) THEN FALSE
        ELSE IF ~triptych_check_construction(sig, m) THEN FALSE
        ELSE IF ~scalar_valid(mu) \/ ~scalar_valid(x) THEN FALSE
        ELSE IF commitment_tensor(f, sig.zA) # pt_add(pt_mul(x, sig.B), sig.A) THEN FALSE
        ELSE IF commitment_tensor(fx, sig.zC) # pt_add(pt_mul(x, sig.C), sig.D) THEN FALSE
        ELSE point_empty(RX) /\ point_empty(RY)

\* the coefficients p[k] of the prover for ring position k (0-based)
RECURSIVE triptych_p(_, _, _, _)
triptych_p(a, decomp_l, decomp_k, j) ==
    LET term == <<a[j][decomp_k[j] + 1], kronecker_delta(decomp_l[j], decomp_k[j])>>
    IN  IF j = 1 THEN term
        ELSE convolve(triptych_p(a, decomp_l, decomp_k, j - 1), term)

\* the values random() returns on one pass: r = <<rA, rB, rC, rD>>, the
\* second column of a, and rho
TriptychDraws(m, pool) == [r : [1 .. 4 -> pool], a : [1 .. m -> pool], rho : [1 .. m -> pool]]

\* one pass through prepare_ring_signature from the label try_again with
\* decomp_l the digits read from gray.v_value(); <<>> for `goto try_again`,
\* otherwise the tuple's signature and xpow
triptych_prepare(in, key_image, real, decomp_l, drawn) ==
    LET m == calculate_base2_exponent(Len(in.public_keys))[2]
        js == 1 .. m
        ring == 1 .. Len(in.public_keys)
        blinding_factor == sc_sub(in.input_blinding_factor, in.pseudo_blinding_factor)
        commitment_image == pt_mul(blinding_factor, key_image)
        a == [j \in js |-> <<negate(drawn.a[j]), drawn.a[j]>>]
        sigma == [j \in js |-> [i \in 1 .. 2 |-> kronecker_delta(decomp_l[j], i - 1)]]
        a_sigma == [j \in js |-> [i \in 1 .. 2 |->
                        sc_mul(a[j][i], sc_sub(ONE, sc_mul(TWO, sigma[j][i])))]]
        a_sq == [j \in js |-> [i \in 1 .. 2 |-> negate(squared(a[j][i]))]]
        changed == gray_code_generator_t(2, m, -1).changed
        p == [k \in ring |-> triptych_p(a, decomp_l, decomp_at(changed, k - 1, m), m)]
        part == [commitment_image |-> commitment_image, pseudo_commitment |-> in.pseudo_commitment,
                 A |-> commitment_tensor(a, drawn.r[1]), B |-> commitment_tensor(sigma, drawn.r[2]),
                 C |-> commitment_tensor(a_sigma, drawn.r[3]), D |-> commitment_tensor(a_sq, drawn.r[4])]
        mu == triptych_mu(in.message_digest, in.public_keys, in.input_commitments, key_image, part)
        X == [j \in js |->
                pt_add(SumOver([i \in ring |->
                                   pt_mul(p[i][j], triptych_member(in.public_keys, in.input_commitments,
                                                                   in.pseudo_commitment, mu, i))], ring),
                       pt_mul(drawn.rho[j], G))]
        Y == [j \in js |->
                pt_add(SumOver([i \in ring |-> pt_mul(p[i][j], U)], ring),
                       pt_mul(drawn.rho[j], key_image))]
        x == triptych_x(mu, X, Y)
        xpow == pow(x, m)
        z == sc_sub(sc_mul(sc_mul(mu, blinding_factor), xpow),
                    SumOver([j \in js |-> sc_mul(drawn.rho[j], pow(x, j - 1))], js))
    IN  IF \E i \in 1 .. 4 : ~scalar_valid(drawn.r[i]) THEN <<>>
        ELSE IF ~scalar_valid(mu) THEN <<>>
        ELSE IF \E j \in js : ~scalar_valid(drawn.rho[j]) THEN <<>>
        ELSE IF ~scalar_valid(x) THEN <<>>
        ELSE <<[commitment_image |-> commitment_image, pseudo_commitment |-> in.pseudo_commitment,
                A |-> part.A, B |-> part.B, C |-> part.C, D |-> part.D, X |-> X, Y |-> Y,
                f |-> [j \in js |-> <<sc_add(sc_mul(sigma[j][2], x), a[j][2])>>],
                zA |-> sc_add(sc_mul(drawn.r[2], x), drawn.r[1]),
                zC |-> sc_add(sc_mul(drawn.r[3], x), drawn.r[4]), z |-> z],
               xpow>>

\* largest value random() returns in the Triptych prover
MaxTriRand == 1

\* the ring of the callers explored: four keys, the signer owns one of them
TriptychRing == [i \in 1 .. 4 |-> pt_mul(i, G)]

TriptychInputs ==
    {[message_digest |-> d, secret_ephemeral |-> x, public_keys |-> TriptychRing,
      input_blinding_factor |-> bf,
      input_commitments |->
        [i \in 1 .. Len(TriptychRing) |->
            IF TriptychRing[i] = pt_mul(x, G) THEN generate_pedersen_commitment(bf, a)
            ELSE generate_pedersen_commitment(MaxBlinding + 1, i)],
      pseudo_blinding_factor |-> pbf,
      pseudo_commitment |-> generate_pedersen_commitment(pbf, a)] :
        d \in Digests, x \in 1 .. Len(TriptychRing),
        bf \in 1 .. MaxBlinding, pbf \in 1 .. MaxBlinding, a \in 0 .. MaxAmount}

TriInit ==
    /\ tri = [pc |-> "start", in |-> [message_digest |-> 0], real |-> 0, I |-> Z,
            signature |-> <<>>, retries |-> 0, success |-> FALSE, ok |-> FALSE]
    /\ tr = Idle /\ sg = Idle /\ bor = Idle /\ cl = Idle /\ bp = Idle /\ mn = Idle /\ ss = Idle /\ ser = Idle /\ rct = Idle /\ sc = Idle /\ gen = Idle /\ gt = Idle /\ vo = Idle /\ ip = Idle /\ gc = Idle /\ ps = Idle /\ cmp = Idle

\* generate_ring_signature's search for the real position (0-based)
RECURSIVE triptych_find_real(_, _)
triptych_find_real(in, i) ==
    IF i > Len(in.public_keys) THEN -1
    ELSE IF /\ pt_mul(in.secret_ephemeral, G) = in.public_keys[i]
            /\ pt_mul(sc_sub(in.input_blinding_factor, in.pseudo_blinding_factor), G)
                 = pt_mul(EIGHT, pt_sub(in.input_commitments[i], in.pseudo_commitment))
    THEN i - 1
    ELSE triptych_find_real(in, i + 1)

\* generate_ring_signature up to the call of prepare_ring_signature, and
\* prepare_ring_signature above the label try_again
TriGenerate ==
    /\ tri.pc = "start"
    /\ \E in \in TriptychInputs :
        LET e == calculate_base2_exponent(Len(in.public_keys))
            real_output_index == triptych_find_real(in, 1)
            key_image == generate_key_image_v2(in.secret_ephemeral)
        IN  IF \/ dedupe_size(in.public_keys) # Len(in.public_keys)
               \/ ~e[1] \/ e[2] < 2
               \/ Len(in.public_keys) # Len(in.input_commitments)
               \/ ~scalar_valid(in.secret_ephemeral)
               \/ ~scalar_valid(in.input_blinding_factor)
               \/ ~scalar_valid(in.pseudo_blinding_factor)
               \/ real_output_index = -1
               \/ ~check_subgroup(key_image)
            THEN tri' = [tri EXCEPT !.pc = "returned", !.in = in, !.success = FALSE]
            ELSE tri' = [tri EXCEPT !.pc = "try_again", !.in = in, !.real = real_output_index,
                                    !.I = key_image]

\* generate_ring_signature after a pass of prepare_ring_signature that read
\* the digits decomp_l
TriPass(decomp_l, drawn) ==
    LET p == triptych_prepare(tri.in, tri.I, tri.real, decomp_l, drawn)
    IN  IF p = <<>>
        THEN /\ tri.retries < MaxRetries
             /\ tri' = [tri EXCEPT !.retries = tri.retries + 1]
        ELSE IF ~scalar_valid(tri.in.secret_ephemeral) \/ ~scalar_valid(p[2])
        THEN tri' = [tri EXCEPT !.pc = "returned", !.success = FALSE]
        ELSE tri' = [tri EXCEPT !.pc = "returned", !.success = TRUE,
                       !.signature = [p[1] EXCEPT !.z = sc_add(p[1].z,
                                         sc_mul(tri.in.secret_ephemeral, p[2]))]]

\* one pass from the label try_again.  decomp_l = gray.v_value() has no
\* entry for the last ring position, where decomp_l[j] reads outside the
\* vector: the process dies or the read gives some int (a digit or not)
TriAttempt ==
    /\ tri.pc = "try_again"
    /\ LET m == calculate_base2_exponent(Len(tri.in.public_keys))[2]
           v_value == gray_code_generator_t(2, m, tri.real).v_changed
       IN  \E drawn \in TriptychDraws(m, 0 .. MaxTriRand) :
            IF Len(v_value) = m \/ \E i \in 1 .. 4 : ~scalar_valid(drawn.r[i])
            THEN TriPass(v_value, drawn)
            ELSE \/ tri' = [tri EXCEPT !.pc = "crashed"]
                 \/ \E read \in [1 .. m -> 0 .. 2] : TriPass(read, drawn)

TriCheck ==
    /\ tri.pc = "returned"
    /\ tri.success
    /\ tri' = [tri EXCEPT !.pc = "checked",
                          !.ok = triptych_check(tri.in.message_digest, tri.I, tri.in.public_keys,
                                                tri.signature, tri.in.input_commitments)]

TriNext == (TriGenerate \/ TriAttempt \/ TriCheck) /\ UNCHANGED <<tr, sg, bor, cl, bp, mn, ss, ser, rct, sc, gen, gt, vo, ip, gc, ps, cmp>>

SpecTriptych == TriInit /\ [][TriNext]_vars

\* C3 (the claim as stated): for a ring of 2^m distinct keys with matching
\* commitments and the signer at any position 0 .. 2^m - 1,
\* generate_ring_signature succeeds and check_ring_signature accepts the
\* signature.
C3_EveryPositionSignsAndVerifies ==
    /\ tri.pc # "crashed"
    /\ tri.pc = "returned" => tri.success
    /\ tri.pc = "checked" => tri.ok

(***************************************************************************)
(* Bulletproofs range proof  (src/proofs/bulletproofs.cpp)                 *)
(*   a proof is a record [A, S, T1, T2, taux, mu, L, R, g, h, t]; vectors  *)
(*   are sequences, positions are 0-based in the code and 1-based here     *)
(***************************************************************************)
\* slice(start, end): the elements at the 0-based positions start .. end - 1
slice(v, start, end) == [i \in 1 .. (end - start) |-> v[start + i]]

\* inner_product() of two vectors of one size: the sum of the pairwise
\* products (scalar * scalar, or scalar * point: both a product mod l)
inner_product(a, b) == SumOver([i \in 1 .. Len(a) |-> sc_mul(a[i], b[i])], 1 .. Len(a))

\* to_bits(bits): the low bits of the scalar, least significant first
to_bits(a, bits) == [i \in 1 .. bits |-> (a \div (2 ^ (i - 1))) % 2]

\* pow_expand(count) for count > 0: a^0, a^1, ..., a^(count-1)
pow_expand(a, count) == [i \in 1 .. count |-> pow(a, i - 1)]

\* one round of the loop that multiplies by the base it was given
pow_sum_loop_unsquared(result, base, count) ==
    IF count > 2 THEN sc_add(result, sc_mul(result, base)) ELSE result

\* the loop of pow_sum for a count above 2
RECURSIVE pow_sum_loop(_, _, _)
pow_sum_loop(result, base, count) ==
    IF count > 2
    THEN LET squared_base == sc_mul(base, base)
         IN  pow_sum_loop(sc_add(result, sc_mul(result, squared_base)), squared_base, count \div 2)
    ELSE result

\* pow_sum(count), count a power of two: a^0 + a^1 + ... + a^(count-1)
pow_sum(a, count) ==
    IF count = 0 THEN ZERO
    ELSE IF count = 1 THEN ONE
    ELSE pow_sum_loop(sc_add(ONE, a), a, count)

\* generate_exponents(count): the i-th L point hashes (i, DOMAIN_1), the
\* i-th R point hashes (i, DOMAIN_1, DOMAIN_2)
generate_exponents(count) ==
    [L |-> [i \in 1 .. count |-> hash_point(sha3(<<i - 1, BULLETPROOFS_DOMAIN_1>>))],
     R |-> [i \in 1 .. count |->
                hash_point(sha3(<<i - 1, BULLETPROOFS_DOMAIN_1, BULLETPROOFS_DOMAIN_2>>))]]

\* InnerProductRound::compute entered with n = G.size(): [threw, L, R, g, h].
\* threw is "range_error" when the two halves of a vector differ in size
\* (a1.inner_product(b2) throws), "runtime_error" when a round challenge is
\* not valid, "" when the rounds complete.
RECURSIVE InnerProductRound(_, _, _)
InnerProductRound(n0, c, U_point) ==
    IF n0 <= 1
    THEN [threw |-> "", L |-> c.L, R |-> c.R, g |-> c.a[1], h |-> c.b[1]]
    ELSE LET n == n0 \div 2
             size == Len(c.a)
             a1 == slice(c.a, 0, n)
             a2 == slice(c.a, n, size)
             b1 == slice(c.b, 0, n)
             b2 == slice(c.b, n, size)
             G1 == slice(c.G, 0, n)
             G2 == slice(c.G, n, size)
             H1 == slice(c.H, 0, n)
             H2 == slice(c.H, n, size)
         IN  IF n # size - n
             THEN [threw |-> "range_error", L |-> c.L, R |-> c.R, g |-> ZERO, h |-> ZERO]
             ELSE LET cL == inner_product(a1, b2)
                      cR == inner_product(a2, b1)
                      L_point == pt_mul(INV_EIGHT,
                                     pt_add(pt_add(inner_product(a1, G2), inner_product(b2, H1)),
                                            pt_mul(cL, U_point)))
                      R_point == pt_mul(INV_EIGHT,
                                     pt_add(pt_add(inner_product(a2, G1), inner_product(b1, H2)),
                                            pt_mul(cR, U_point)))
                      state == update1(update1(c.tr, L_point), R_point)
                      x == state
                      x_inv == invert(x)
                  IN  IF ~scalar_valid(x)
                      THEN [threw |-> "runtime_error", L |-> c.L, R |-> c.R, g |-> ZERO, h |-> ZERO]
                      ELSE InnerProductRound(n,
                               [G |-> [i \in 1 .. n |-> dbl_mult(x_inv, G1[i], x, G2[i])],
                                H |-> [i \in 1 .. n |-> dbl_mult(x, H1[i], x_inv, H2[i])],
                                a |-> [i \in 1 .. n |-> sc_add(sc_mul(a1[i], x), sc_mul(a2[i], x_inv))],
                                b |-> [i \in 1 .. n |-> sc_add(sc_mul(b1[i], x_inv), sc_mul(b2[i], x))],
                                L |-> Append(c.L, L_point),
                                R |-> Append(c.R, R_point),
                                tr |-> state],
                               U_point)

\* One pass of prove from the retry label, d the scalars random() returns in
\* it (d.sL, d.sR vectors of M*N scalars): [outcome, proof, V].  outcome is
\* "zero_draw" or "zero_challenge" for a goto retry taken on a scalar that is
\* not valid, the exception InnerProductRound threw (caught, then goto retry),
\* or "proof" for the return.  The pass is written as the code runs it, each
\* challenge handed to the part of the pass that follows it.
bulletproofs_prove(amounts, blinding_factors, N0, d) ==
    LET M == Len(amounts)
        N == pow2_round(N0)
        MN == M * N
        exponents == generate_exponents(MN)
        Gi == exponents.L
        Hi == exponents.R
        V == [i \in 1 .. M |-> generate_pedersen_commitment(blinding_factors[i], amounts[i])]
        aL == [i \in 1 .. MN |-> to_bits(amounts[((i - 1) \div N) + 1], N)[((i - 1) % N) + 1]]
        aR == [i \in 1 .. MN |-> sc_sub(aL[i], ONE)]
        A == pt_mul(INV_EIGHT, pt_add(pt_add(inner_product(aL, Gi), inner_product(aR, Hi)),
                                      pt_mul(d.alpha, G)))
        S == pt_mul(INV_EIGHT, pt_add(pt_add(inner_product(d.sL, Gi), inner_product(d.sR, Hi)),
                                      pt_mul(d.rho, G)))
        retry(why) == [outcome |-> why, proof |-> <<>>, V |-> <<>>]
        \* from const auto y = tr.challenge()
        after_y(y) ==
            LET z == update1(y, y)
                y_inv == invert(y)
                y_powers == pow_expand(y, MN)
                l0 == [i \in 1 .. MN |-> sc_sub(aL[i], z)]
                l1 == d.sL
                zeros_twos == [i \in 1 .. MN |->
                                  sc_mul(pow(z, 2 + ((i - 1) \div N)), pow(TWO, (i - 1) % N))]
                r0 == [i \in 1 .. MN |->
                          sc_add(sc_mul(sc_add(aR[i], z), y_powers[i]), zeros_twos[i])]
                r1 == [i \in 1 .. MN |-> sc_mul(y_powers[i], d.sR[i])]
                t1 == sc_add(inner_product(l0, r1), inner_product(l1, r0))
                t2 == inner_product(l1, r1)
                \* from const auto x = tr.challenge()
                after_x(T1, T2, x) ==
                    LET taux == sc_add(sc_add(sc_mul(d.tau1, x), sc_mul(d.tau2, squared(x))),
                                       SumOver([j \in 1 .. M |->
                                                   sc_mul(pow(z, 1 + j), blinding_factors[j])],
                                               1 .. M))
                        mu == sc_add(sc_mul(x, d.rho), d.alpha)
                        l_vec == [i \in 1 .. MN |-> sc_add(l0[i], sc_mul(l1[i], x))]
                        r_vec == [i \in 1 .. MN |-> sc_add(r0[i], sc_mul(r1[i], x))]
                        \* from const auto x_ip = tr.challenge()
                        after_x_ip(t, x_ip) ==
                            LET Hi_points == [i \in 1 .. MN |-> pt_mul(pow(y_inv, i - 1), Hi[i])]
                                Hx_ip == pt_mul(x_ip, H)
                                returned(round) ==
                                    IF round.threw # "" THEN retry(round.threw)
                                    ELSE [outcome |-> "proof",
                                          proof |-> [A |-> A, S |-> S, T1 |-> T1, T2 |-> T2,
                                                     taux |-> taux, mu |-> mu,
                                                     L |-> round.L, R |-> round.R,
                                                     g |-> round.g, h |-> round.h, t |-> t],
                                          V |-> V]
                            IN  IF ~scalar_valid(x_ip) THEN retry("zero_challenge")
                                ELSE returned(InnerProductRound(MN,
                                         [G |-> Gi, H |-> Hi_points, a |-> l_vec, b |-> r_vec,
                                          L |-> <<>>, R |-> <<>>, tr |-> x_ip],
                                         Hx_ip))
                        with_t(t) == after_x_ip(t, update1(update1(update1(x, taux), mu), t))
                    IN  IF ~scalar_valid(x) THEN retry("zero_challenge")
                        ELSE with_t(inner_product(l_vec, r_vec))
                with_T(T1, T2) == after_x(T1, T2, update1(update1(z, T1), T2))
            IN  IF ~scalar_valid(y) \/ ~scalar_valid(z) THEN retry("zero_challenge")
                ELSE IF ~scalar_valid(d.tau1) \/ ~scalar_valid(d.tau2) THEN retry("zero_draw")
                ELSE with_T(pt_mul(INV_EIGHT, dbl_mult(t1, H, d.tau1, G)),
                            pt_mul(INV_EIGHT, dbl_mult(t2, H, d.tau2, G)))
    IN  IF ~scalar_valid(d.alpha) \/ ~scalar_valid(d.rho) THEN retry("zero_draw")
        ELSE after_y(update1(update1(updateV(transcript1(BULLETPROOFS_DOMAIN_0), V), A), S))

\* crypto_bulletproof_t::check_construction
bulletproof_check_construction(proof) ==
    /\ Len(proof.L) = Len(proof.R)
    /\ Len(proof.L) # 0
    /\ point_valid(proof.A) /\ point_valid(proof.S)
    /\ point_valid(proof.T1) /\ point_valid(proof.T2)
    /\ \A i \in 1 .. Len(proof.L) : point_valid(proof.L[i])
    /\ \A i \in 1 .. Len(proof.R) : point_valid(proof.R[i])
    /\ scalar_valid(proof.taux) /\ scalar_valid(proof.mu)
    /\ scalar_valid(proof.g) /\ scalar_valid(proof.h) /\ scalar_valid(proof.t)

\* The body of verify's loop for one proof, N already rounded, (weight_y,
\* weight_z) the weights random() returns, garbage the point a read of
\* commitments[ii][j] past the end of the vector yields: status "false" for a
\* return false, "threw" for y.pow_expand(0), else "ok" with the proof's terms
\* of y0, y1, z1, z3, Gi_scalars, Hi_scalars and of scalars.inner_product(points)
\* over the points pushed in the loop (sum); oob tells that the vector was read
\* past its end.
bulletproofs_verify_proof(proof, commitments, N, weight_y, weight_z, garbage) ==
    LET rounds == Len(proof.L)
        M == (2 ^ rounds) \div N
        MN == M * N
        y == update1(update1(updateV(transcript1(BULLETPROOFS_DOMAIN_0), commitments),
                             proof.A), proof.S)
        y_powers == pow_expand(y, MN)
        y_inv_powers == [i \in 1 .. MN |-> invert(y_powers[i])]
        z == update1(y, y)
        z_powers == pow_expand(z, M + 3)
        x == update1(update1(z, proof.T1), proof.T2)
        x_ip == update1(update1(update1(x, proof.taux), proof.mu), proof.t)
        k == sc_sub(sc_mul(sc_sub(z, squared(z)), SumOver(y_powers, 1 .. MN)),
                    SumOver([j \in 1 .. M |-> sc_mul(z_powers[j + 3], pow_sum(TWO, N))], 1 .. M))
        commitment(j) == IF j <= Len(commitments) THEN commitments[j] ELSE garbage
        transcript[i \in 0 .. rounds] ==
            IF i = 0 THEN x_ip ELSE update1(update1(transcript[i - 1], proof.L[i]), proof.R[i])
        challenges == [i \in 1 .. rounds |-> transcript[i]]
        challenges_inv == [i \in 1 .. rounds |-> invert(challenges[i])]
        \* index / base_power != 0 at round j of position i (0-based)
        high(i, j) == ((i \div (2 ^ j)) % 2) = 1
        g(i) == sc_add(sc_mul(proof.g,
                              ProdOver([j \in 0 .. rounds - 1 |->
                                           IF high(i, j) THEN challenges[rounds - j]
                                           ELSE challenges_inv[rounds - j]],
                                       0 .. rounds - 1)),
                       z)
        h(i) == sc_sub(sc_mul(sc_mul(proof.h, y_inv_powers[i + 1]),
                              ProdOver([j \in 0 .. rounds - 1 |->
                                           IF high(i, j) THEN challenges_inv[rounds - j]
                                           ELSE challenges[rounds - j]],
                                       0 .. rounds - 1)),
                       sc_mul(sc_add(sc_mul(z, y_powers[i + 1]),
                                     sc_mul(z_powers[3 + (i \div N)], pow(TWO, i % N))),
                              y_inv_powers[i + 1]))
        sum == pt_add(
                 pt_add(SumOver([j \in 1 .. M |->
                                    pt_mul(sc_mul(z_powers[j + 2], weight_y),
                                           pt_mul(EIGHT, commitment(j)))], 1 .. M),
                        pt_add(dbl_mult(sc_mul(x, weight_y), pt_mul(EIGHT, proof.T1),
                                        sc_mul(squared(x), weight_y), pt_mul(EIGHT, proof.T2)),
                               dbl_mult(weight_z, pt_mul(EIGHT, proof.A),
                                        sc_mul(x, weight_z), pt_mul(EIGHT, proof.S)))),
                 SumOver([i \in 1 .. rounds |->
                             dbl_mult(sc_mul(squared(challenges[i]), weight_z),
                                      pt_mul(EIGHT, proof.L[i]),
                                      sc_mul(squared(challenges_inv[i]), weight_z),
                                      pt_mul(EIGHT, proof.R[i]))], 1 .. rounds))
        stop(status) == [status |-> status, oob |-> FALSE]
    IN  IF ~bulletproof_check_construction(proof) THEN stop("false")
        ELSE IF Len(commitments) = 0 THEN stop("false")
        ELSE IF ~scalar_valid(y) THEN stop("false")
        ELSE IF MN = 0 THEN stop("threw")
        ELSE IF ~scalar_valid(z) \/ ~scalar_valid(x) \/ ~scalar_valid(x_ip) THEN stop("false")
        ELSE IF \E P \in {proof.T1, proof.T2, proof.A, proof.S} : ~point_valid(pt_mul(EIGHT, P))
        THEN [status |-> "false", oob |-> M > Len(commitments)]
        ELSE IF \E i \in 1 .. rounds : ~scalar_valid(challenges[i])
        THEN [status |-> "false", oob |-> M > Len(commitments)]
        ELSE IF \E i \in 1 .. rounds :
                    \/ ~point_valid(pt_mul(EIGHT, proof.L[i]))
                    \/ ~point_valid(pt_mul(EIGHT, proof.R[i]))
        THEN [status |-> "false", oob |-> M > Len(commitments)]
        ELSE [status |-> "ok", oob |-> M > Len(commitments),
              y0 |-> sc_mul(proof.taux, weight_y),
              y1 |-> sc_mul(sc_sub(proof.t, k), weight_y),
              z1 |-> sc_mul(proof.mu, weight_z),
              z3 |-> sc_mul(sc_mul(sc_sub(proof.t, sc_mul(proof.g, proof.h)), x_ip), weight_z),
              Gi_scalars |-> [i \in 1 .. MN |-> sc_mul(g(i - 1), weight_z)],
              Hi_scalars |-> [i \in 1 .. MN |-> sc_mul(h(i - 1), weight_z)],
              sum |-> sum]

\* the accumulators assigned (=) instead of added to (+=)
verify_accumulate_overwrite(total, c) ==
    [y0 |-> c.y0, y1 |-> c.y1, z1 |-> c.z1, z3 |-> c.z3,
     Gi_scalars |-> [i \in 1 .. Len(total.Gi_scalars) |->
                        IF i <= Len(c.Gi_scalars) THEN c.Gi_scalars[i] ELSE ZERO],
     Hi_scalars |-> [i \in 1 .. Len(total.Hi_scalars) |->
                        IF i <= Len(c.Hi_scalars) THEN c.Hi_scalars[i] ELSE ZERO],
     sum |-> c.sum,
     oob |-> total.oob \/ c.oob]

\* the += of one proof's terms into the accumulators of the batch
verify_accumulate(total, c) ==
    [y0 |-> sc_add(total.y0, c.y0), y1 |-> sc_add(total.y1, c.y1),
     z1 |-> sc_add(total.z1, c.z1), z3 |-> sc_add(total.z3, c.z3),
     Gi_scalars |-> [i \in 1 .. Len(total.Gi_scalars) |->
                        IF i <= Len(c.Gi_scalars) THEN sc_add(total.Gi_scalars[i], c.Gi_scalars[i])
                        ELSE total.Gi_scalars[i]],
     Hi_scalars |-> [i \in 1 .. Len(total.Hi_scalars) |->
                        IF i <= Len(c.Hi_scalars) THEN sc_add(total.Hi_scalars[i], c.Hi_scalars[i])
                        ELSE total.Hi_scalars[i]],
     sum |-> pt_add(total.sum, c.sum),
     oob |-> total.oob \/ c.oob]

\* the tail of verify: G, H and the generators get their scalars, and the
\* proofs are accepted when scalars.inner_product(points) is the neutral point
verify_aggregate(total, Gi, Hi) ==
    point_empty(
        pt_add(pt_add(total.sum,
                      dbl_mult(sc_sub(negate(total.y0), total.z1), G,
                               sc_add(negate(total.y1), total.z3), H)),
               SumOver([i \in 1 .. Len(total.Gi_scalars) |->
                           dbl_mult(negate(total.Gi_scalars[i]), Gi[i],
                                    negate(total.Hi_scalars[i]), Hi[i])],
                       1 .. Len(total.Gi_scalars))))

\* verify's loop over the proofs from position ii (1-based), c the call's
\* values: [result, oob], result "true" / "false" for the value returned and
\* "threw" for an exception that leaves verify
RECURSIVE bulletproofs_verify_loop(_, _, _)
bulletproofs_verify_loop(ii, total, c) ==
    IF ii > Len(c.proofs)
    THEN [result |-> IF verify_aggregate(total, c.Gi, c.Hi) THEN "true" ELSE "false",
          oob |-> total.oob]
    ELSE LET terms == bulletproofs_verify_proof(c.proofs[ii], c.commitments[ii], c.N,
                                                c.weights[ii][1], c.weights[ii][2], c.garbage)
         IN  IF terms.status # "ok"
             THEN [result |-> terms.status, oob |-> total.oob \/ terms.oob]
             ELSE bulletproofs_verify_loop(ii + 1, verify_accumulate(total, terms), c)

\* verify(proofs, commitments, N) for N in [1, 64]; weights[ii] is the pair
\* (weight_y, weight_z) drawn for proof ii
bulletproofs_verify(proofs, commitments, N0, weights, garbage) ==
    IF Len(proofs) # Len(commitments) THEN [result |-> "false", oob |-> FALSE]
    ELSE LET N == pow2_round(N0)
             sizes == {Len(proofs[ii].L) : ii \in 1 .. Len(proofs)} \cup {0}
             max_M == CHOOSE m \in sizes : \A other \in sizes : other <= m
             max_MN == 2 ^ max_M
             exponents == generate_exponents(max_MN)
         IN  bulletproofs_verify_loop(1,
                 [y0 |-> ZERO, y1 |-> ZERO, z1 |-> ZERO, z3 |-> ZERO,
                  Gi_scalars |-> [i \in 1 .. max_MN |-> ZERO],
                  Hi_scalars |-> [i \in 1 .. max_MN |-> ZERO],
                  sum |-> Z, oob |-> FALSE],
                 [proofs |-> proofs, commitments |-> commitments, N |-> N,
                  weights |-> weights, garbage |-> garbage,
                  Gi |-> exponents.L, Hi |-> exponents.R])

(***************************************************************************)
(* Calls of Bulletproofs::prove followed by verify.  bp.items are the      *)
(* (amounts, blinding_factors) of the prove calls, all with bp.N; one      *)
(* BpAttempt is one pass of the running prove call from its retry label;   *)
(* BpVerify is the batch verify of all the proofs and, beside it, the      *)
(* single verify of each.                                                  *)
(***************************************************************************)
MaxN == 3

MaxM == 3

MaxMN == 4

MaxBatch == 2

MaxBpBlinding == 1

MaxBpRand == 1

MaxWeight == 1

\* amounts at the two limits 2^N and 2^pow2_round(N)
BpAmounts(N) == {2 ^ N - 1, 2 ^ N, 2 ^ pow2_round(N)}

\* the argument lists of 1 .. MaxBatch prove calls with N bits, of MaxM
\* amounts in all: a call has M amounts, the first any of BpAmounts(N) and the
\* others 1, and M equal blinding factors
BpInputs(N) ==
    LET items == {[amounts |-> [i \in 1 .. M |-> IF i = 1 THEN v ELSE 1],
                   blinding_factors |-> [i \in 1 .. M |-> b]] :
                     M \in {m \in 1 .. MaxM : m * pow2_round(N) <= MaxMN},
                     v \in BpAmounts(N), b \in 1 .. MaxBpBlinding}
        lists == UNION {[1 .. n -> items] : n \in 1 .. MaxBatch}
    IN  {list \in lists :
            SumOver([i \in 1 .. Len(list) |-> Len(list[i].amounts)], 1 .. Len(list)) <= MaxM}

\* what random() returns in one pass of prove for vectors of MN scalars: any
\* of 0 .. MaxBpRand for a scalar, and for random(MN) a run of consecutive
\* scalars, ascending for sL and descending for sR
BpDraws(MN) ==
    {[alpha |-> alpha, rho |-> rho, tau1 |-> tau1, tau2 |-> tau2,
      sL |-> [i \in 1 .. MN |-> s + i - 1], sR |-> [i \in 1 .. MN |-> s + MN - i]] :
        alpha \in 0 .. MaxBpRand, rho \in 0 .. MaxBpRand,
        tau1 \in 0 .. MaxBpRand, tau2 \in 0 .. MaxBpRand, s \in 0 .. MaxBpRand}

BpInit ==
    /\ bp = [pc |-> "start", N |-> 1, items |-> <<>>, proofs |-> <<>>, V |-> <<>>,
             last |-> "", vN |-> 1, weights |-> <<>>, single_weights |-> <<0, 0>>,
             batch |-> "", single |-> <<>>]
    /\ tr = Idle /\ sg = Idle /\ bor = Idle /\ cl = Idle /\ tri = Idle /\ mn = Idle /\ ss = Idle /\ ser = Idle /\ rct = Idle /\ sc = Idle /\ gen = Idle /\ gt = Idle /\ vo = Idle /\ ip = Idle /\ gc = Idle /\ ps = Idle /\ cmp = Idle

BpGenerate ==
    /\ bp.pc = "start"
    /\ \E N \in 1 .. MaxN : \E items \in BpInputs(N) :
           bp' = [bp EXCEPT !.pc = "proving", !.N = N, !.items = items]

\* one pass of the prove call of the next item
BpAttempt ==
    /\ bp.pc = "proving"
    /\ LET item == bp.items[Len(bp.proofs) + 1]
       IN  \E d \in BpDraws(Len(item.amounts) * pow2_round(bp.N)) :
               LET pass == bulletproofs_prove(item.amounts, item.blinding_factors, bp.N, d)
               IN  IF pass.outcome = "proof"
                   THEN bp' = [bp EXCEPT !.proofs = Append(@, pass.proof),
                                         !.V = Append(@, pass.V),
                                         !.last = "proof",
                                         !.pc = IF Len(bp.proofs) + 1 = Len(bp.items)
                                                THEN "proved" ELSE "proving"]
                   ELSE bp' = [bp EXCEPT !.last = pass.outcome]

\* verify(bp.proofs, bp.V, vN) with the weights it draws and, for a list of
\* several proofs, verify(bp.proofs[i], bp.V[i], vN) for each i with the
\* weights these calls draw (for one proof the two are one call); a read past
\* the end of a commitment vector yields some point or ends the process
BpVerify ==
    /\ bp.pc = "proved"
    /\ \E vN \in 1 .. MaxN, garbage \in {Z, G} :
       \E weights \in [1 .. Len(bp.proofs) -> (0 .. MaxWeight) \X (0 .. MaxWeight)] :
       \E single_weights \in (0 .. MaxWeight) \X (0 .. MaxWeight) :
           /\ Len(bp.proofs) > 1 => vN = bp.N
           /\ Len(bp.proofs) = 1 => single_weights = weights[1]
           /\ LET batch == bulletproofs_verify(bp.proofs, bp.V, vN, weights, garbage)
                  single == [i \in 1 .. Len(bp.proofs) |->
                                bulletproofs_verify(<<bp.proofs[i]>>, <<bp.V[i]>>, vN,
                                                    <<single_weights>>, garbage)]
              IN  /\ batch.oob \/ garbage = Z
                  /\ \/ bp' = [bp EXCEPT !.pc = "verified", !.vN = vN, !.weights = weights,
                                         !.single_weights = single_weights,
                                         !.batch = batch.result,
                                         !.single = [i \in 1 .. Len(bp.proofs) |->
                                                        single[i].result]]
                     \/ /\ batch.oob
                        /\ bp' = [bp EXCEPT !.pc = "crashed", !.vN = vN]

BpNext == (BpGenerate \/ BpAttempt \/ BpVerify) /\ UNCHANGED <<tr, sg, bor, cl, tri, mn, ss, ser, rct, sc, gen, gt, vo, ip, gc, ps, cmp>>

SpecBulletproofs == BpInit /\ [][BpNext]_vars

\* N rounded up to a power of two, as a number: the least power of two that
\* is at least N
RoundedBits(N) == CHOOSE p \in {2 ^ e : e \in 0 .. 7} :
                      /\ p >= N
                      /\ \A q \in {2 ^ e : e \in 0 .. 7} : q >= N => p <= q

\* a single prove call of one amount, verified with the N it was proved with
BpSingleAmount ==
    /\ bp.pc = "verified"
    /\ Len(bp.items) = 1
    /\ Len(bp.items[1].amounts) = 1
    /\ bp.vN = bp.N

\* every weight drawn by the verify calls of the list is not zero
BpWeightsNonzero ==
    /\ \A i \in 1 .. Len(bp.weights) : bp.weights[i][1] # ZERO /\ bp.weights[i][2] # ZERO
    /\ bp.single_weights[1] # ZERO /\ bp.single_weights[2] # ZERO

\* C1 (the claim as stated): for any number M of amounts prove returns a
\* proof once a pass draws scalars and derives challenges that are all
\* nonzero; a pass goes back to the retry label only because one of them was
\* zero, never for a reason that every later pass meets again.
C1_ProveRetriesOnlyOnZeroScalar ==
    bp.pc = "proving" =>
        bp.last \in {"", "proof", "zero_draw", "zero_challenge", "runtime_error"}

\* C2 (the claim as stated): whatever N in [1, 64], number of (L, R) pairs
\* and commitment vector lengths verify is called with, it returns true or
\* false: it neither throws nor fails otherwise.
C2_VerifyReturnsBoolean ==
    /\ bp.pc # "crashed"
    /\ bp.pc = "verified" =>
           /\ bp.batch \in {"true", "false"}
           /\ \A i \in 1 .. Len(bp.single) : bp.single[i] \in {"true", "false"}

\* C27 (the claim as stated): when verify is called with a commitment vector
\* shorter than the batch size M that the proof's number of (L, R) pairs
\* implies, it returns false and commitments[i][j] is read only for j below
\* the length of commitments[i], so no read ends the process.
C27_ShortCommitmentVectorRejected ==
    \A i \in 1 .. Len(bp.proofs) :
        /\ bp.pc \in {"verified", "crashed"}
        /\ Len(bp.V) = Len(bp.proofs)
        /\ Len(bp.V[i]) < (2 ^ Len(bp.proofs[i].L)) \div pow2_round(bp.vN)
        => /\ bp.pc = "verified"
           /\ bp.batch = "false"

\* C4 (the claim as stated): the proof prove returns for amounts that all lie
\* in [0, 2^N) is accepted by verify called with the same N.
C4_InRangeProofAccepted ==
    /\ bp.pc = "verified"
    /\ Len(bp.items) = 1
    /\ bp.vN = bp.N
    /\ \A i \in 1 .. Len(bp.items[1].amounts) : bp.items[1].amounts[i] < 2 ^ bp.N
    => bp.batch = "true"

MaxThreads == 2

MaxLookups == 2

MnThreads == 1 .. MaxThreads

Languages == {"ENGLISH", "SPANISH"}

\* stand-ins for the word lists, which are single-byte words here; a word is
\* the sequence of its characters
select_word_list(language) ==
    IF language = "ENGLISH"
    THEN <<<<"a", "b", "a", "n", "d", "o", "n">>, <<"a", "c", "t">>>>
    ELSE <<<<"a", "b", "a", "j", "o">>, <<"a", "c", "t", "o">>>>

select_word_list_prefix(language) == 4

\* utf8_substr on single-byte characters: max stops at index length, or at
\* the end of a shorter string, and substr(min, max) keeps the first max
utf8_substr(str, length) ==
    IF length = 0 \/ Len(str) = 0 THEN <<>>
    ELSE [i \in 1 .. (IF Len(str) < length THEN Len(str) ELSE length) |-> str[i]]

\* lines 282-291: the list word_list_trimmed builds for a language
trimmed_words(language) ==
    [i \in 1 .. Len(select_word_list(language)) |->
        utf8_substr(select_word_list(language)[i], select_word_list_prefix(language))]

\* the kind of access each position of word_list_trimmed makes to the map
MnAccess(pc) == IF pc = "insert" THEN "w" ELSE "r"

\* another thread is inside the map and one of the two accesses writes it
MnConflict(t, mode) ==
    \E u \in MnThreads : u # t /\ mn.th[u].inside # "" /\ (mode = "w" \/ mn.th[u].inside = "w")

MnReturned(kind, words) == [kind |-> kind, words |-> words]

MnThreadIdle ==
    [pc |-> "idle", lang |-> "ENGLISH", inside |-> "", ret |-> MnReturned("none", <<>>), n |-> 0]

MnInit ==
    /\ mn = [cache |-> {}, th |-> [t \in MnThreads |-> MnThreadIdle], raced |-> FALSE]
    /\ tr = Idle /\ sg = Idle /\ bor = Idle /\ cl = Idle /\ tri = Idle /\ bp = Idle /\ ss = Idle /\ ser = Idle /\ rct = Idle /\ sc = Idle /\ gen = Idle /\ gt = Idle /\ vo = Idle /\ ip = Idle /\ gc = Idle /\ ps = Idle /\ cmp = Idle

\* a thread calls word_list_trimmed(language)
MnCall == \E t \in MnThreads, language \in Languages :
    /\ mn.th[t].pc \in {"idle", "done"}
    /\ mn.th[t].n < MaxLookups
    /\ mn' = [mn EXCEPT !.th[t] = [pc |-> "find", lang |-> language, inside |-> "",
                                   ret |-> MnReturned("none", <<>>), n |-> @.n + 1]]

\* the thread enters find(), insert() or at() on the shared map
MnBegin == \E t \in MnThreads :
    /\ mn.th[t].pc \in {"find", "insert", "at"}
    /\ mn.th[t].inside = ""
    /\ mn' = [mn EXCEPT !.th[t].inside = MnAccess(mn.th[t].pc),
                        !.raced = @ \/ MnConflict(t, MnAccess(mn.th[t].pc))]

\* the thread leaves the map: find() decides whether the list is built and
\* inserted (280), insert() adds the language (293), at() returns the list
\* (296).  After a data race the call returns the list, some other value, or
\* does not return.
MnEnd == \E t \in MnThreads :
    /\ mn.th[t].inside # ""
    /\ \/ /\ mn.th[t].pc = "find"
          /\ mn' = [mn EXCEPT !.th[t].inside = "",
                              !.th[t].pc = IF mn.th[t].lang \in mn.cache THEN "at" ELSE "insert"]
       \/ /\ mn.th[t].pc = "insert"
          /\ mn' = [mn EXCEPT !.th[t].inside = "", !.th[t].pc = "at",
                              !.cache = @ \cup {mn.th[t].lang}]
       \/ /\ mn.th[t].pc = "at"
          /\ \E outcome \in (IF mn.raced THEN {"list", "corrupt", "crashed"} ELSE {"list"}) :
                mn' = [mn EXCEPT !.th[t].inside = "", !.th[t].pc = "done",
                                 !.th[t].ret =
                                     IF outcome # "list" THEN MnReturned(outcome, <<>>)
                                     ELSE IF mn.th[t].lang \in mn.cache
                                          THEN MnReturned("list", trimmed_words(mn.th[t].lang))
                                          ELSE MnReturned("out_of_range", <<>>)]

MnNext == (MnCall \/ MnBegin \/ MnEnd) /\ UNCHANGED <<tr, sg, bor, cl, tri, bp, ss, ser, rct, sc, gen, gt, vo, ip, gc, ps, cmp>>

SpecMnemonics == MnInit /\ [][MnNext]_vars

\* C12 (the claim as stated): no two threads are ever inside the mnemonic
\* word-list cache at the same time with one of them writing it, and every
\* lookup that returned gave the trimmed word list of its language.
C12_NoUnlockedSharedState ==
    /\ \A t \in MnThreads : mn.th[t].inside = "" \/ ~MnConflict(t, mn.th[t].inside)
    /\ \A t \in MnThreads :
          mn.th[t].pc = "done" => mn.th[t].ret = MnReturned("list", trimmed_words(mn.th[t].lang))

(***************************************************************************)
(* Independent signing sessions: the prepare and complete steps of the     *)
(* multi-party split (signatures/signature.cpp,                            *)
(* signatures/ring_signature_borromean.cpp).  Each session owns its secret *)
(* and the prepared signature its prepare step returned; the steps of the  *)
(* sessions interleave freely.  A signature is the sequence of its (L, R)  *)
(* pairs, a plain signature having one pair.                               *)
(***************************************************************************)
MaxSessions == 2

Sessions == 1 .. MaxSessions

\* prepare_signature, one pass from try_again: the pair (L, alpha), or no
\* signature when the pass goes back to the label
session_prepare_signature(message_digest, public_key, rnd) ==
    LET alpha_scalar == prepare_alpha(message_digest, public_key, rnd)
        L == prepare_L(message_digest, public_key, alpha_scalar)
    IN  IF ~scalar_valid(alpha_scalar) \/ ~scalar_valid(L)
        THEN [outcome |-> "try_again", signature |-> <<>>]
        ELSE [outcome |-> "prepared", signature |-> <<<<L, alpha_scalar>>>>]

\* Borromean prepare_ring_signature, one pass from try_again
session_prepare_ring_signature(message_digest, key_image, public_keys, real, rnd, drawn) ==
    LET alpha_scalar == borromean_alpha(message_digest, key_image, public_keys, rnd)
        challenge == borromean_prepare_challenge(message_digest, key_image, public_keys, real,
                                                 alpha_scalar, drawn)
        sum == sum_L(drawn, (1 .. Len(drawn)) \ {real + 1})
    IN  IF alpha_scalar = ZERO THEN [outcome |-> "failed", signature |-> <<>>]
        ELSE IF ~scalar_valid(challenge) THEN [outcome |-> "try_again", signature |-> <<>>]
        ELSE [outcome |-> "prepared",
              signature |-> [drawn EXCEPT ![real + 1] = <<sc_sub(challenge, sum), alpha_scalar>>]]

\* the complete step of either scheme on the signature it is handed:
\* complete_signature throws on an invalid argument, complete_ring_signature
\* returns {false, {}}
session_complete(kind, signing_scalar, real, signature) ==
    IF kind = "signature"
    THEN IF \/ ~(signing_scalar \in Scalars)
            \/ ~scalar_valid(signature[1][1]) \/ ~scalar_valid(signature[1][2])
         THEN [outcome |-> "threw", signature |-> <<>>]
         ELSE [outcome |-> "completed",
               signature |-> <<<<signature[1][1],
                                 complete_signature(signing_scalar, signature[1][1], signature[1][2])>>>>]
    ELSE IF ~borromean_complete_ok(signing_scalar, real, signature)
         THEN [outcome |-> "failed", signature |-> <<>>]
         ELSE [outcome |-> "completed", signature |-> borromean_complete(signing_scalar, real, signature)]

\* a complete step that would write the response into the object it was handed
argument_after_complete_in_place(signature, finalized_signature) == finalized_signature

\* the caller's prepared signature after the complete step returned: the
\* parameter is a const reference and the step works on a copy of it
argument_after_complete(signature, finalized_signature) == signature

SessionKinds == {"signature", "borromean"}

\* the inputs of a session: one ring, the secret of either member, and the
\* scalars random() returns during the prepare step
SessionRing == [i \in 1 .. MaxRing |-> pt_mul(i, G)]

SessionRand == {1, MaxRand}

SessionDrawn == {[i \in 1 .. MaxRing |-> pair] : pair \in {<<1, MaxRand>>, <<MaxRand, 1>>}}

SessionNew ==
    [pc |-> "new", kind |-> "signature", digest |-> 0, x |-> ZERO, keys |-> <<>>, real |-> 0,
     prepared |-> <<>>, kept |-> <<>>, out |-> <<>>]

SsInit ==
    /\ ss = [i \in Sessions |-> SessionNew]
    /\ tr = Idle /\ sg = Idle /\ bor = Idle /\ cl = Idle /\ tri = Idle /\ bp = Idle /\ mn = Idle /\ ser = Idle /\ rct = Idle /\ sc = Idle /\ gen = Idle /\ gt = Idle /\ vo = Idle /\ ip = Idle /\ gc = Idle /\ ps = Idle /\ cmp = Idle

\* session i runs its prepare step
SsPrepare == \E i \in Sessions, kind \in SessionKinds, message_digest \in Digests,
                x \in 1 .. MaxRing, rnd \in SessionRand, drawn \in SessionDrawn :
    LET public_keys == SessionRing
        real == find_key(public_keys, pt_mul(x, G), 1)
        key_image == generate_key_image(pt_mul(x, G), x)
        r == IF kind = "signature"
             THEN session_prepare_signature(message_digest, pt_mul(x, G), rnd)
             ELSE session_prepare_ring_signature(message_digest, key_image, public_keys, real, rnd, drawn)
    IN  /\ ss[i].pc = "new"
        /\ real # -1
        /\ r.outcome # "try_again"
        /\ ss' = [ss EXCEPT ![i] = [pc |-> r.outcome, kind |-> kind, digest |-> message_digest, x |-> x,
                                    keys |-> IF kind = "signature" THEN <<pt_mul(x, G)>> ELSE public_keys,
                                    real |-> IF kind = "signature" THEN 0 ELSE real,
                                    prepared |-> r.signature, kept |-> r.signature, out |-> <<>>]]

\* session i runs its complete step on its own prepared signature
SsComplete == \E i \in Sessions :
    LET r == session_complete(ss[i].kind, ss[i].x, ss[i].real, ss[i].prepared)
    IN  /\ ss[i].pc = "prepared"
        /\ ss' = [ss EXCEPT ![i].pc = r.outcome,
                            ![i].prepared = argument_after_complete(ss[i].prepared, r.signature),
                            ![i].out = r.signature]

\* the completed signature of session i is checked
SsCheck == \E i \in Sessions :
    /\ ss[i].pc = "completed"
    /\ ss' = [ss EXCEPT ![i].pc =
                IF ss[i].kind = "signature"
                THEN IF check_signature(ss[i].digest, ss[i].keys[1], ss[i].out[1][1], ss[i].out[1][2])
                     THEN "accepted" ELSE "rejected"
                ELSE IF borromean_check(ss[i].digest, generate_key_image(pt_mul(ss[i].x, G), ss[i].x),
                                        ss[i].keys, ss[i].out)
                     THEN "accepted" ELSE "rejected"]

SsNext == (SsPrepare \/ SsComplete \/ SsCheck) /\ UNCHANGED <<tr, sg, bor, cl, tri, bp, mn, ser, rct, sc, gen, gt, vo, ip, gc, ps, cmp>>

SpecSessions == SsInit /\ [][SsNext]_vars

\* what the session's own prepared value and secret give when completed alone
SessionAlone(i) == session_complete(ss[i].kind, ss[i].x, ss[i].real, ss[i].kept)

MaxFieldLen == 2

MaxField == 1

RECURSIVE Flatten(_)
Flatten(pairs) ==
    IF Len(pairs) = 0 THEN <<>> ELSE <<pairs[1][1], pairs[1][2]>> \o Flatten(Tail(pairs))

\* crypto_clsag_signature_t::serialize(writer)
clsag_serialize(x) ==
    <<Len(x.scalars)>> \o x.scalars \o <<x.challenge>>
        \o (IF point_valid(x.commitment_image)
            THEN <<1, x.commitment_image, x.pseudo_commitment>>
            ELSE <<0>>)

\* crypto_clsag_signature_t::deserialize(reader) into a default-constructed
\* object
clsag_deserialize(data) ==
    LET n == data[1]
        flag == data[n + 3]
    IN  [scalars |-> [i \in 1 .. n |-> data[i + 1]],
         challenge |-> data[n + 2],
         commitment_image |-> IF flag = 1 THEN data[n + 4] ELSE ClsagNone.commitment_image,
         pseudo_commitment |-> IF flag = 1 THEN data[n + 5] ELSE ClsagNone.pseudo_commitment]

\* crypto_borromean_signature_t::serialize(writer): the (L, R) pairs
borromean_serialize(signatures) == <<Len(signatures)>> \o Flatten(signatures)

borromean_deserialize(data) == [i \in 1 .. data[1] |-> <<data[2 * i], data[2 * i + 1]>>]

FieldVecs == UNION {[1 .. n -> 0 .. MaxField] : n \in 0 .. MaxFieldLen}

ClsagObjects ==
    [scalars : FieldVecs, challenge : 0 .. MaxField,
     commitment_image : {Z, G, H}, pseudo_commitment : {Z, G, H}]

BorromeanObjects ==
    UNION {[1 .. n -> (0 .. MaxField) \X (0 .. MaxField)] : n \in 0 .. MaxFieldLen}

SerInit ==
    /\ ser = [pc |-> "start", type |-> "none", value |-> <<>>, data |-> <<>>, post_value |-> <<>>]
    /\ tr = Idle /\ sg = Idle /\ bor = Idle /\ cl = Idle /\ tri = Idle /\ bp = Idle /\ mn = Idle /\ rct = Idle /\ sc = Idle /\ gen = Idle /\ gt = Idle /\ vo = Idle /\ ip = Idle /\ gc = Idle /\ ps = Idle /\ cmp = Idle
    /\ ss = Idle

\* value.serialize(writer)
SerSerialize ==
    /\ ser.pc = "start"
    /\ \/ \E x \in ClsagObjects :
            ser' = [ser EXCEPT !.pc = "written", !.type = "clsag", !.value = x,
                               !.data = clsag_serialize(x)]
       \/ \E x \in BorromeanObjects :
            ser' = [ser EXCEPT !.pc = "written", !.type = "borromean", !.value = x,
                               !.data = borromean_serialize(x)]

\* T post_value; post_value.deserialize(reader)
SerDeserialize ==
    /\ ser.pc = "written"
    /\ ser' = [ser EXCEPT !.pc = "read",
                          !.post_value = IF ser.type = "clsag" THEN clsag_deserialize(ser.data)
                                         ELSE borromean_deserialize(ser.data)]

SerNext == (SerSerialize \/ SerDeserialize) /\ UNCHANGED <<tr, sg, bor, cl, tri, bp, mn, ss, rct, sc, gen, gt, vo, ip, gc, ps, cmp>>

SpecSerialization == SerInit /\ [][SerNext]_vars

\* C14 (the claim as stated): deserializing the bytes that serializing a
\* signature object produced gives an object equal to it in every field,
\* whatever values the fields hold.
C14_RoundTripEveryField == ser.pc = "read" => ser.post_value = ser.value

(***************************************************************************)
(* RingCT amount masking (proofs/ringct.cpp).  An amount is an unsigned    *)
(* integer of AmountBits bits (64 in the library); to_uint64_t() keeps the *)
(* low AmountBits bits of a scalar.                                        *)
(***************************************************************************)
AmountBits == 3

Amounts == 0 .. (2 ^ AmountBits - 1)

to_uint64_t(a) == a % (2 ^ AmountBits)

\* bytewise temp[i] ^= amount_mask[i] over the low AmountBits bits
xor_low(a, b) ==
    SumOver([i \in 1 .. AmountBits |->
                (2 ^ (i - 1)) * ((to_bits(a, AmountBits)[i] + to_bits(b, AmountBits)[i]) % 2)],
            1 .. AmountBits)

\* toggle_masked_amount(amount_mask, amount)
toggle_masked_amount(amount_mask, amount) ==
    IF ~scalar_valid(amount_mask) \/ ~scalar_valid(amount)
    THEN [outcome |-> "invalid_argument", value |-> ZERO]
    ELSE [outcome |-> "returned", value |-> xor_low(to_uint64_t(amount), amount_mask)]

RctInit ==
    /\ rct = [pc |-> "start", amount_mask |-> ONE, amount |-> ZERO, masked |-> ZERO, out |-> ZERO]
    /\ tr = Idle /\ sg = Idle /\ bor = Idle /\ cl = Idle /\ tri = Idle /\ bp = Idle /\ mn = Idle /\ sc = Idle /\ gen = Idle /\ gt = Idle /\ vo = Idle /\ ip = Idle /\ gc = Idle /\ ps = Idle /\ cmp = Idle
    /\ ss = Idle /\ ser = Idle

\* masked_amount = toggle_masked_amount(amount_mask, amount)
RctMask ==
    /\ rct.pc = "start"
    /\ \E amount_mask \in Scalars \ {ZERO}, amount \in Amounts :
        LET r == toggle_masked_amount(amount_mask, amount)
        IN  rct' = [rct EXCEPT !.pc = IF r.outcome = "returned" THEN "masked" ELSE "threw",
                               !.amount_mask = amount_mask, !.amount = amount, !.masked = r.value]

\* unmasked_amount = toggle_masked_amount(amount_mask, masked_amount)
RctUnmask ==
    /\ rct.pc = "masked"
    /\ LET r == toggle_masked_amount(rct.amount_mask, rct.masked)
       IN  rct' = [rct EXCEPT !.pc = IF r.outcome = "returned" THEN "unmasked" ELSE "threw",
                              !.out = r.value]

RctNext == (RctMask \/ RctUnmask) /\ UNCHANGED <<tr, sg, bor, cl, tri, bp, mn, ss, ser, sc, gen, gt, vo, ip, gc, ps, cmp>>

SpecRingCT == RctInit /\ [][RctNext]_vars

\* C15 (the claim as stated): for every nonzero amount mask and every
\* amount a, toggle_masked_amount(mask, toggle_masked_amount(mask, a))
\* returns a: neither call fails and the second returns the amount.
C15_ToggleTwiceReturnsAmount ==
    /\ rct.pc # "threw"
    /\ rct.pc = "unmasked" => rct.out = rct.amount

(***************************************************************************)
(* Scalar operations called on their own (types/crypto_scalar_t.cpp):      *)
(* pow_sum, construction from a byte buffer, is_nonzero; a behaviour is    *)
(* one call.  A size_t has                                                 *)
(* SizeBits bits (64 in the library).  A byte buffer is given by its       *)
(* length and its first byte, the other bytes being zero.                  *)
(***************************************************************************)
SizeBits == 8

MaxCount == 9

MaxBufLen == 33

MaxByte == 2

\* x & y on size_t
size_t_and(x, y) ==
    SumOver([i \in 1 .. SizeBits |-> (2 ^ (i - 1)) * (to_bits(x, SizeBits)[i] * to_bits(y, SizeBits)[i])],
            1 .. SizeBits)

\* a pow_sum without the test of its count
pow_sum_any_count(count) == TRUE

\* is_power_of_2 = (count & (count - 1)) == 0, count - 1 wrapping around
pow_sum_is_power_of_2(count) == size_t_and(count, (count - 1) % (2 ^ SizeBits)) = 0

\* a call of pow_sum(count) on the scalar a
pow_sum_call(a, count) ==
    IF ~pow_sum_is_power_of_2(count)
    THEN [outcome |-> "runtime_error", value |-> ZERO]
    ELSE [outcome |-> "returned", value |-> pow_sum(a, count)]

\* crypto_scalar_t(const std::vector<unsigned char> &input, bool reduce)
scalar_from_bytes(size, first, reduce) ==
    IF size # 32 /\ size # 8 /\ size # 4
    THEN [outcome |-> "runtime_error", value |-> ZERO]
    ELSE [outcome |-> "loaded", value |-> IF reduce THEN first % l ELSE first]

ScInit ==
    /\ sc = [op |-> "none", a |-> ZERO, count |-> 0, outcome |-> "none", value |-> ZERO, flag |-> FALSE]
    /\ tr = Idle /\ sg = Idle /\ bor = Idle /\ cl = Idle /\ tri = Idle /\ bp = Idle /\ mn = Idle /\ gen = Idle /\ gt = Idle /\ vo = Idle /\ ip = Idle /\ gc = Idle /\ ps = Idle /\ cmp = Idle
    /\ ss = Idle /\ ser = Idle /\ rct = Idle

ScPowSum == \E a \in Scalars, count \in 0 .. MaxCount :
    LET r == pow_sum_call(a, count)
    IN  sc.op = "none" /\ sc' = [op |-> "pow_sum", a |-> a, count |-> count, outcome |-> r.outcome, value |-> r.value,
               flag |-> FALSE]

ScFromBytes == \E size \in 0 .. MaxBufLen, first \in 0 .. MaxByte, reduce \in BOOLEAN :
    LET r == scalar_from_bytes(size, IF size = 0 THEN 0 ELSE first, reduce)
    IN  sc.op = "none" /\ sc' = [op |-> "from_bytes", a |-> IF size = 0 THEN 0 ELSE first, count |-> size,
               outcome |-> r.outcome, value |-> r.value, flag |-> reduce]

ScIsNonzero == \E a \in Scalars :
    sc.op = "none" /\ sc' = [op |-> "is_nonzero", a |-> a, count |-> 0, outcome |-> "returned", value |-> a,
           flag |-> is_nonzero(a)]

ScNext ==
    (ScPowSum \/ ScFromBytes \/ ScIsNonzero) /\ UNCHANGED <<tr, sg, bor, cl, tri, bp, mn, ss, ser, rct, gen, gt, vo, ip, gc, ps, cmp>>

SpecScalar == ScInit /\ [][ScNext]_vars

\* a^0 + a^1 + ... + a^(count - 1) mod l, term by term
PowerSeries(a, count) == SumOver([i \in 1 .. count |-> pow(a, i - 1)], 1 .. count)

PowersOfTwo == {2 ^ k : k \in 0 .. SizeBits - 1}

\* C16: for every scalar a and every k >= 0, a.pow_sum(2^k) returns the sum
\* of a^i for i from 0 to 2^k - 1, taken mod l.
C16_PowSumIsGeometricSum ==
    (sc.op = "pow_sum" /\ sc.count \in PowersOfTwo) =>
        (sc.outcome = "returned" /\ sc.value = PowerSeries(sc.a, sc.count))

\* a count above two, where the loop runs, on a base other than 0 and 1
C16_PowSumIsGeometricSum_Witness ==
    /\ sc.op = "pow_sum" /\ sc.count = 8 /\ sc.a = 3
    /\ sc.outcome = "returned" /\ sc.value = PowerSeries(3, 8) /\ sc.value # pow_sum(3, 4)

\* C17 (the claim as stated): for every count that is not a power of two,
\* pow_sum raises a runtime failure instead of returning a value.
C17_NonPowerOfTwoCountFails ==
    (sc.op = "pow_sum" /\ sc.count \notin PowersOfTwo) => sc.outcome = "runtime_error"

\* C17 (amended): for every count of at least one that is not a power of
\* two, pow_sum raises a runtime failure; for the count zero it returns the
\* zero scalar.
C17_PositiveNonPowerOfTwoCountFails ==
    /\ (sc.op = "pow_sum" /\ sc.count \notin PowersOfTwo /\ sc.count >= 1) => sc.outcome = "runtime_error"
    /\ (sc.op = "pow_sum" /\ sc.count = 0) => (sc.outcome = "returned" /\ sc.value = ZERO)

C17_PositiveNonPowerOfTwoCountFails_Witness ==
    sc.op = "pow_sum" /\ sc.count = 6 /\ sc.a = TWO /\ sc.outcome = "runtime_error"

\* C18 (the claim as stated): constructing a scalar from a byte buffer whose
\* length is not 32, 8 or 4 fails with an invalid-argument error, and a
\* buffer of length 32, 8 or 4 loads without error.
C18_BadBufferLengthIsInvalidArgument ==
    sc.op = "from_bytes" =>
        IF sc.count \in {32, 8, 4} THEN sc.outcome = "loaded" ELSE sc.outcome = "invalid_argument"

\* C19 (the claim as stated): is_nonzero() returns true exactly when the
\* scalar is not zero, and false for the zero scalar.
C19_IsNonzeroTrueIffNotZero ==
    sc.op = "is_nonzero" => (sc.flag <=> sc.a # ZERO)

(***************************************************************************)
(* The generator caches of proofs/bulletproofs.cpp and                     *)
(* proofs/bulletproofsplus.cpp: the function-local statics L_cached and    *)
(* R_cached of generate_exponents.  A call holds the file's mutex from its *)
(* first line to its return, so calls on one cache are atomic steps.       *)
(***************************************************************************)
MaxExponents == 4

MaxGenCalls == 3

\* the loop that would hash the index after the one it appends at
RECURSIVE exponents_extend_off_by_one(_, _, _, _, _)
exponents_extend_off_by_one(cache, i, count, domain_1, domain_2) ==
    IF i < count
    THEN exponents_extend_off_by_one(
            [L |-> Append(cache.L, hash_point(sha3(<<i + 1, domain_1>>))),
             R |-> Append(cache.R, hash_point(sha3(<<i + 1, domain_1, domain_2>>)))],
            i + 1, count, domain_1, domain_2)
    ELSE cache

\* for (i = L_cached.size(); i < count; ++i): append the points of index i
RECURSIVE exponents_extend(_, _, _, _, _)
exponents_extend(cache, i, count, domain_1, domain_2) ==
    IF i < count
    THEN exponents_extend(
            [L |-> Append(cache.L, hash_point(sha3(<<i, domain_1>>))),
             R |-> Append(cache.R, hash_point(sha3(<<i, domain_1, domain_2>>)))],
            i + 1, count, domain_1, domain_2)
    ELSE cache

\* generate_exponents(count) keeping in the cache only what it returns
cached_generate_exponents_trimming(cache, count, domain_1, domain_2) ==
    LET extended == exponents_extend(cache, Len(cache.L), count, domain_1, domain_2)
        kept == [L |-> slice(extended.L, 0, count), R |-> slice(extended.R, 0, count)]
    IN  [cache |-> kept, L |-> kept.L, R |-> kept.R]

\* generate_exponents(count) on a cache: the cache after the call and the
\* two vectors returned
cached_generate_exponents(cache, count, domain_1, domain_2) ==
    IF count = Len(cache.L) /\ count = Len(cache.R)
    THEN [cache |-> cache, L |-> cache.L, R |-> cache.R]
    ELSE IF count < Len(cache.L)
    THEN [cache |-> cache, L |-> slice(cache.L, 0, count), R |-> slice(cache.R, 0, count)]
    ELSE LET extended == exponents_extend(cache, Len(cache.L), count, domain_1, domain_2)
         IN  [cache |-> extended, L |-> extended.L, R |-> extended.R]

GenDomains(which) ==
    IF which = "bulletproofs" THEN <<BULLETPROOFS_DOMAIN_1, BULLETPROOFS_DOMAIN_2>>
    ELSE <<BULLETPROOFS_PLUS_DOMAIN_1, BULLETPROOFS_PLUS_DOMAIN_2>>

GenInit ==
    /\ gen = [cache |-> [which \in {"bulletproofs", "bulletproofsplus"} |-> [L |-> <<>>, R |-> <<>>]],
              which |-> "none", count |-> 0, L |-> <<>>, R |-> <<>>, before |-> 0, n |-> 0,
              largest |-> [which \in {"bulletproofs", "bulletproofsplus"} |-> 0]]
    /\ tr = Idle /\ sg = Idle /\ bor = Idle /\ cl = Idle /\ tri = Idle /\ bp = Idle /\ mn = Idle /\ gt = Idle /\ vo = Idle /\ ip = Idle /\ gc = Idle /\ ps = Idle /\ cmp = Idle
    /\ ss = Idle /\ ser = Idle /\ rct = Idle /\ sc = Idle

\* a call of generate_exponents(count) of either file
GenCall == \E which \in {"bulletproofs", "bulletproofsplus"}, count \in 0 .. MaxExponents :
    LET r == cached_generate_exponents(gen.cache[which], count, GenDomains(which)[1], GenDomains(which)[2])
    IN  /\ gen.n < MaxGenCalls
        /\ gen' = [cache |-> [gen.cache EXCEPT ![which] = r.cache], which |-> which, count |-> count,
                   L |-> r.L, R |-> r.R, before |-> Len(gen.cache[which].L), n |-> gen.n + 1,
                   largest |-> [gen.largest EXCEPT
                                   ![which] = IF count > @ THEN count ELSE @]]

GenNext == GenCall /\ UNCHANGED <<tr, sg, bor, cl, tri, bp, mn, ss, ser, rct, sc, gt, vo, ip, gc, ps, cmp>>

SpecGenerators == GenInit /\ [][GenNext]_vars

\* C20: whatever calls came before, generate_exponents(c) returns two
\* vectors of exactly c points, the point at index i being the hash of
\* (i, domain 1) and of (i, domain 1, domain 2) of its file; the cache keeps
\* every point it held and holds those of the largest request so far.
C20_ExponentsIndependentOfHistory ==
    gen.which # "none" =>
        /\ Len(gen.L) = gen.count /\ Len(gen.R) = gen.count
        /\ \A i \in 1 .. gen.count :
            /\ gen.L[i] = hash_point(sha3(<<i - 1, GenDomains(gen.which)[1]>>))
            /\ gen.R[i] = hash_point(sha3(<<i - 1, GenDomains(gen.which)[1], GenDomains(gen.which)[2]>>))
        /\ Len(gen.cache[gen.which].L) = (IF gen.count > gen.before THEN gen.count ELSE gen.before)
        /\ Len(gen.cache[gen.which].R) = Len(gen.cache[gen.which].L)
        /\ \A i \in 1 .. gen.count : gen.cache[gen.which].L[i] = gen.L[i] /\ gen.cache[gen.which].R[i] = gen.R[i]

\* the third call on the caches, a request that extends a cache which
\* already holds two points
C20_ExponentsIndependentOfHistory_Witness ==
    /\ gen.which = "bulletproofs" /\ gen.n = 3
    /\ gen.before = 2 /\ gen.count = MaxExponents
    /\ gen.L # gen.R

\* C30: over any sequence of generate_exponents calls the two cached vectors
\* of a cache have equal length, the length is the largest count requested
\* of that cache so far, a call never shortens a cached vector, and the
\* point stored at an index of a cached vector is never changed.
C30_CacheGrowsAndKeepsItsPoints ==
    [][\A which \in {"bulletproofs", "bulletproofsplus"} :
          LET old == gen.cache[which]
              new == gen'.cache[which]
          IN  /\ Len(new.L) = Len(new.R)
              /\ Len(new.L) = gen'.largest[which]
              /\ Len(new.L) >= Len(old.L) /\ Len(new.R) >= Len(old.R)
              /\ \A i \in 1 .. Len(old.L) : new.L[i] = old.L[i]
              /\ \A i \in 1 .. Len(old.R) : new.R[i] = old.R[i]]_vars

\* a cache that holds the points of the largest request has answered a
\* smaller request after it
C30_CacheGrowsAndKeepsItsPoints_Witness ==
    /\ gen.which = "bulletproofsplus" /\ gen.n = 3
    /\ gen.before = MaxExponents /\ gen.count \in 1 .. MaxExponents - 1
    /\ Len(gen.cache[gen.which].L) = MaxExponents
    /\ gen.largest["bulletproofs"] < gen.largest["bulletproofsplus"]

(***************************************************************************)
(* generate_exponents called from several threads (proofs/bulletproofs.cpp *)
(* 38-83; proofs/bulletproofsplus.cpp has the same text with its own mutex *)
(* and domains).  std::scoped_lock takes bulletproofs_mutex on entry and   *)
(* releases it after the returned tuple has been copied.  The extension    *)
(* loop appends to L_cached and then to R_cached, so that between the two  *)
(* appends the cache is half extended.                                     *)
(***************************************************************************)
MaxThreadCalls == 2

MaxThreadCount == 3

GtThreads == 1 .. MaxThreads

\* a lock that would be granted whoever holds the mutex
mutex_always_available(owner) == TRUE

\* std::scoped_lock lock(bulletproofs_mutex): granted when nobody holds it
mutex_available(owner) == owner = 0

GtInside == {"test", "append_L", "append_R", "return"}

GtThreadIdle == [pc |-> "idle", count |-> 0, i |-> 0, L |-> <<>>, R |-> <<>>, n |-> 0]

GtInit ==
    /\ gt = [owner |-> 0, cache |-> [L |-> <<>>, R |-> <<>>], th |-> [t \in GtThreads |-> GtThreadIdle]]
    /\ tr = Idle /\ sg = Idle /\ bor = Idle /\ cl = Idle /\ tri = Idle /\ bp = Idle /\ mn = Idle /\ vo = Idle /\ ip = Idle /\ gc = Idle /\ ps = Idle /\ cmp = Idle
    /\ ss = Idle /\ ser = Idle /\ rct = Idle /\ sc = Idle /\ gen = Idle /\ vo = Idle /\ ip = Idle /\ gc = Idle /\ ps = Idle /\ cmp = Idle

\* a thread enters generate_exponents(count) from prove or verify
GtCall == \E t \in GtThreads, count \in 0 .. MaxThreadCount :
    /\ gt.th[t].pc \in {"idle", "done"}
    /\ gt.th[t].n < MaxThreadCalls
    /\ gt' = [gt EXCEPT !.th[t] = [pc |-> "lock", count |-> count, i |-> 0, L |-> <<>>, R |-> <<>>,
                                   n |-> @.n + 1]]

\* line 51: the thread takes the mutex
GtLock == \E t \in GtThreads :
    /\ gt.th[t].pc = "lock"
    /\ mutex_available(gt.owner)
    /\ gt' = [gt EXCEPT !.owner = t, !.th[t].pc = "test"]

\* lines 55-67: the two tests on the cached sizes, then i = L_cached.size()
GtTest == \E t \in GtThreads :
    /\ gt.th[t].pc = "test"
    /\ IF gt.th[t].count = Len(gt.cache.L) /\ gt.th[t].count = Len(gt.cache.R)
       THEN gt' = [gt EXCEPT !.th[t].pc = "return"]
       ELSE IF gt.th[t].count < Len(gt.cache.L)
       THEN gt' = [gt EXCEPT !.th[t].pc = "return"]
       ELSE gt' = [gt EXCEPT !.th[t].pc = "append_L", !.th[t].i = Len(gt.cache.L)]

\* lines 67-75: the loop test and L_cached.append
GtAppendL == \E t \in GtThreads :
    /\ gt.th[t].pc = "append_L"
    /\ IF gt.th[t].i < gt.th[t].count
       THEN gt' = [gt EXCEPT !.th[t].pc = "append_R",
                             !.cache.L = Append(@, hash_point(sha3(<<gt.th[t].i, BULLETPROOFS_DOMAIN_1>>)))]
       ELSE gt' = [gt EXCEPT !.th[t].pc = "return"]

\* lines 77-79: R_cached.append and ++i
GtAppendR == \E t \in GtThreads :
    /\ gt.th[t].pc = "append_R"
    /\ gt' = [gt EXCEPT !.th[t].pc = "append_L", !.th[t].i = @ + 1,
                        !.cache.R = Append(@, hash_point(sha3(<<gt.th[t].i, BULLETPROOFS_DOMAIN_1,
                                                                BULLETPROOFS_DOMAIN_2>>)))]

\* the return statements at 57, 62 and 82: the vectors are copied out (a
\* slice of the first count entries when the cache is longer), then the
\* lock is released
GtReturn == \E t \in GtThreads :
    LET nL == IF gt.th[t].count < Len(gt.cache.L) THEN gt.th[t].count ELSE Len(gt.cache.L)
        nR == IF gt.th[t].count < Len(gt.cache.L)
              THEN (IF gt.th[t].count < Len(gt.cache.R) THEN gt.th[t].count ELSE Len(gt.cache.R))
              ELSE Len(gt.cache.R)
    IN  /\ gt.th[t].pc = "return"
        /\ gt' = [gt EXCEPT !.owner = IF @ = t THEN 0 ELSE @,
                            !.th[t].pc = "done",
                            !.th[t].L = [j \in 1 .. nL |-> gt.cache.L[j]],
                            !.th[t].R = [j \in 1 .. nR |-> gt.cache.R[j]]]

GtNext ==
    (GtCall \/ GtLock \/ GtTest \/ GtAppendL \/ GtAppendR \/ GtReturn)
        /\ UNCHANGED <<tr, sg, bor, cl, tri, bp, mn, ss, ser, rct, sc, gen, vo, ip, gc, ps, cmp>>

SpecGeneratorThreads == GtInit /\ [][GtNext]_vars

\* C21: at most one thread at a time is between taking the mutex and its
\* return, and every caller receives two vectors of the length it asked
\* for.
C21_OneThreadInCacheAndWholeVectors ==
    /\ Cardinality({t \in GtThreads : gt.th[t].pc \in GtInside}) <= 1
    /\ \A t \in GtThreads :
        gt.th[t].pc = "done" =>
            /\ Len(gt.th[t].L) = gt.th[t].count
            /\ Len(gt.th[t].R) = gt.th[t].count

\* one thread waits for the mutex while the other holds a half-extended cache
C21_OneThreadInCacheAndWholeVectors_Witness ==
    \E t \in GtThreads, u \in GtThreads :
        /\ gt.th[t].pc = "append_R" /\ gt.th[u].pc = "lock"
        /\ Len(gt.cache.L) = Len(gt.cache.R) + 1
        /\ gt.th[u].count = Len(gt.cache.L)

(***************************************************************************)
(* The order of the steps of Bulletproofs verify (proofs/bulletproofs.cpp  *)
(* 378-436).  A proof is given by the sizes of its L and R vectors and by  *)
(* whether its points and scalars are valid, which is all that             *)
(* check_construction looks at.  vo.used holds the proofs a field of which *)
(* has been read to size, index or compute something, vo.checked those for *)
(* which check_construction has returned true, and vo.early tells that a   *)
(* field was read of a proof not in vo.checked.                            *)
(***************************************************************************)
POWERS_OF_TWO_SIZE == 64

MaxOrderBatch == 2

OrderSizes == {0, 1, 2, POWERS_OF_TWO_SIZE}

OrderProofs == [nL : OrderSizes, nR : OrderSizes, fields_valid : BOOLEAN]

\* crypto_bulletproof_t::check_construction on the sizes and validity flags
order_check_construction(proof) ==
    /\ proof.nL = proof.nR /\ proof.nL # 0
    /\ proof.fields_valid

RECURSIVE order_max_M(_, _)
order_max_M(proofs, i) ==
    IF i > Len(proofs) THEN 0
    ELSE LET rest == order_max_M(proofs, i + 1)
         IN  IF proofs[i].nL > rest THEN proofs[i].nL ELSE rest

VoInit ==
    /\ vo = [pc |-> "start", proofs |-> <<>>, N |-> 1, ii |-> 0, max_M |-> 0, used |-> {},
             checked |-> {}, early |-> FALSE, result |-> "none"]
    /\ tr = Idle /\ sg = Idle /\ bor = Idle /\ cl = Idle /\ tri = Idle /\ bp = Idle /\ mn = Idle /\ ip = Idle /\ gc = Idle /\ ps = Idle /\ cmp = Idle
    /\ ss = Idle /\ ser = Idle /\ rct = Idle /\ sc = Idle /\ gen = Idle /\ gt = Idle /\ ip = Idle /\ gc = Idle /\ ps = Idle /\ cmp = Idle

\* lines 384-400: the tests on N and on the two list sizes, pow2_round(N)
VoCall ==
    /\ vo.pc = "start"
    /\ \E n \in 1 .. MaxOrderBatch, N \in {1, 2} : \E proofs \in [1 .. n -> OrderProofs] :
        /\ \A i \in 1 .. n : proofs[i].nR \in {proofs[i].nL, 1}
        /\ vo' = [vo EXCEPT !.pc = "scan", !.proofs = proofs, !.N = pow2_round(N)]

\* lines 402-407: max_M = max(max_M, proof.L.size()) over all proofs
VoScan ==
    /\ vo.pc = "scan"
    /\ vo' = [vo EXCEPT !.pc = "table", !.max_M = order_max_M(vo.proofs, 1),
                        !.used = 1 .. Len(vo.proofs),
                        !.early = \E i \in 1 .. Len(vo.proofs) : i \notin vo.checked]

\* lines 407-409: powers_of_two[max_M], a vector of 64 entries, then
\* generate_exponents(max_MN); an index of 64 or more is outside the vector
VoTable ==
    /\ vo.pc = "table"
    /\ IF vo.max_M >= POWERS_OF_TWO_SIZE
       THEN \E outcome \in {"crashed", "loop"} :
                vo' = [vo EXCEPT !.pc = IF outcome = "loop" THEN "loop" ELSE "returned",
                                 !.result = IF outcome = "loop" THEN "none" ELSE "crashed"]
       ELSE vo' = [vo EXCEPT !.pc = "loop"]

\* lines 420-432: the loop test, check_construction of proofs[ii]
VoCheck ==
    /\ vo.pc = "loop"
    /\ IF vo.ii >= Len(vo.proofs)
       THEN vo' = [vo EXCEPT !.pc = "returned", !.result = "final"]
       ELSE IF ~order_check_construction(vo.proofs[vo.ii + 1])
       THEN vo' = [vo EXCEPT !.pc = "returned", !.result = "false"]
       ELSE vo' = [vo EXCEPT !.pc = "use", !.checked = @ \cup {vo.ii + 1}]

\* lines 434-650: M from proof.L.size(), the transcript over the proof's
\* points and the sums over its scalars, then ++ii
VoUse ==
    /\ vo.pc = "use"
    /\ vo' = [vo EXCEPT !.pc = "loop", !.ii = @ + 1, !.used = @ \cup {vo.ii + 1},
                        !.early = @ \/ (vo.ii + 1) \notin vo.checked]

VoNext ==
    (VoCall \/ VoScan \/ VoTable \/ VoCheck \/ VoUse)
        /\ UNCHANGED <<tr, sg, bor, cl, tri, bp, mn, ss, ser, rct, sc, gen, gt, ip, gc, ps, cmp>>

SpecVerifyOrder == VoInit /\ [][VoNext]_vars

\* C22 (the claim as stated): check_construction has returned true for a
\* proof before any of its fields is used to size, index or compute
\* anything, and no such use reads outside a table.
C22_ConstructionCheckedBeforeUse ==
    /\ ~vo.early
    /\ vo.used \subseteq vo.checked
    /\ vo.result # "crashed"

(***************************************************************************)
(* InnerProductRound::compute on its own (proofs/bulletproofs.cpp          *)
(* 107-157): it is entered with generator and scalar vectors of M*N        *)
(* entries, as prove builds them for M amounts of N bits.                  *)
(***************************************************************************)
MaxRoundM == 3

MaxRoundN == 4

MaxRoundRand == 2

IpInit ==
    /\ ip = [pc |-> "start", M |-> 1, N |-> 1, threw |-> "", L |-> <<>>, R |-> <<>>]
    /\ tr = Idle /\ sg = Idle /\ bor = Idle /\ cl = Idle /\ tri = Idle /\ bp = Idle /\ mn = Idle /\ gc = Idle /\ ps = Idle /\ cmp = Idle
    /\ ss = Idle /\ ser = Idle /\ rct = Idle /\ sc = Idle /\ gen = Idle /\ gt = Idle /\ vo = Idle /\ gc = Idle /\ ps = Idle /\ cmp = Idle

\* InnerProductRound(Gi, Hi, U, a, b, tr).compute() for M * N entries
IpCompute ==
    /\ ip.pc = "start"
    /\ \E M \in 1 .. MaxRoundM, N \in {n \in 1 .. MaxRoundN : is_power_of_two(n)},
          s \in 0 .. MaxRoundRand, t \in 0 .. MaxRoundRand, seed \in 0 .. MaxRoundRand :
        LET MN == M * N
            exponents == generate_exponents(MN)
            round == InnerProductRound(MN,
                        [G |-> exponents.L, H |-> exponents.R,
                         a |-> [i \in 1 .. MN |-> s + i], b |-> [i \in 1 .. MN |-> t + MN - i],
                         L |-> <<>>, R |-> <<>>, tr |-> transcript1(seed)],
                        pt_mul(seed + 1, H))
        IN  ip' = [pc |-> "done", M |-> M, N |-> N, threw |-> round.threw, L |-> round.L, R |-> round.R]

IpNext ==
    IpCompute /\ UNCHANGED <<tr, sg, bor, cl, tri, bp, mn, ss, ser, rct, sc, gen, gt, vo, gc, ps, cmp>>

SpecInnerProduct == IpInit /\ [][IpNext]_vars

\* C23 (the claim as stated): entered with vectors of M*N entries, the
\* round halves the working length down to 1 and returns exactly log2(M*N)
\* pairs (L_j, R_j), the two lists of equal length; the one documented
\* exception is a round challenge that comes out zero.
C23_RoundEmitsLog2Pairs ==
    (ip.pc = "done" /\ ip.threw # "runtime_error") =>
        /\ ip.threw = ""
        /\ Len(ip.L) = Len(ip.R)
        /\ 2 ^ Len(ip.L) = ip.M * ip.N

(***************************************************************************)
(* Gray code generator  (src/helpers/gray_code_generator_t.cpp)            *)
(*   one object: constructed with (N, K, v), then read through             *)
(*   operator[], size() and v_value()                                      *)
(***************************************************************************)

\* largest base and largest number of digits constructed
MaxGrayN == 3

MaxGrayK == 3

\* the code word held after the entries changed[0 .. k] (0-based k)
gray_word(changed, k, K) == decomp_at(changed, k, K)

\* the code word `word` after the entry e = {i, old, new} is applied
gray_apply(word, e) == [j \in 1 .. Len(word) |-> IF j = e[1] + 1 THEN e[3] ELSE word[j]]

\* the code words held after each entry of changed, in order; words holds
\* those of the entries before the k-th (0-based k)
RECURSIVE gray_words(_, _, _, _)
gray_words(changed, k, K, words) ==
    IF k >= Len(changed) THEN words
    ELSE gray_words(changed, k + 1, K,
                    Append(words, gray_apply(IF k = 0 THEN [j \in 1 .. K |-> 0] ELSE words[k],
                                             changed[k + 1])))

GcInit ==
    /\ gc = [pc |-> "start", N |-> 0, K |-> 0, v |-> 0, changed |-> <<>>, v_changed |-> <<>>,
             i |-> 0, out |-> <<>>]
    /\ tr = Idle /\ sg = Idle /\ bor = Idle /\ cl = Idle /\ tri = Idle /\ bp = Idle /\ mn = Idle /\ ss = Idle /\ ser = Idle /\ rct = Idle /\ sc = Idle /\ gen = Idle /\ gt = Idle /\ vo = Idle /\ ip = Idle /\ ps = Idle /\ cmp = Idle

\* gray_code_generator_t(N, K, v), which runs generate()
GcConstruct ==
    /\ gc.pc = "start"
    /\ \E N \in 2 .. MaxGrayN, K \in 1 .. MaxGrayK :
        \E v \in 0 .. N ^ K - 1 :
            LET made == gray_code_generator_t(N, K, v)
            IN  gc' = [gc EXCEPT !.pc = "built", !.N = N, !.K = K, !.v = v,
                                 !.changed = made.changed, !.v_changed = made.v_changed]

\* operator[](i) for an i below size()
GcIndex ==
    /\ gc.pc = "built"
    /\ \E i \in 0 .. Len(gc.changed) - 1 :
        gc' = [gc EXCEPT !.pc = "indexed", !.i = i, !.out = gc.changed[i + 1]]

\* v_value()
GcValue ==
    /\ gc.pc = "built"
    /\ gc' = [gc EXCEPT !.pc = "valued", !.out = gc.v_changed]

GcNext == (GcConstruct \/ GcIndex \/ GcValue) /\ UNCHANGED <<tr, sg, bor, cl, tri, bp, mn, ss, ser, rct, sc, gen, gt, vo, ip, ps, cmp>>

SpecGrayCode == GcInit /\ [][GcNext]_vars

\* C25: the generator holds exactly N^K entries; every entry after the first
\* names one digit position, the digit the previous code word has there and
\* a different digit in [0, N) that replaces it; the N^K code words are
\* pairwise different, so each word of K digits below N is visited once
C25_GrayCodeVisitsEveryWordOnce ==
    gc.pc = "built" =>
        LET words == gray_words(gc.changed, 0, gc.K, <<>>)
            word == [p \in 0 .. Len(gc.changed) - 1 |-> words[p + 1]]
        IN  /\ Len(gc.changed) = gc.N ^ gc.K
            /\ \A p \in 1 .. Len(gc.changed) - 1 :
                LET e == gc.changed[p + 1]
                IN  /\ e[1] \in 0 .. gc.K - 1
                    /\ e[2] = word[p - 1][e[1] + 1]
                    /\ e[3] \in 0 .. gc.N - 1
                    /\ e[3] # e[2]
                    /\ \A j \in 1 .. gc.K : (word[p][j] # word[p - 1][j]) <=> (j = e[1] + 1)
            /\ \A p, q \in 0 .. Len(gc.changed) - 1 : p # q => word[p] # word[q]
            /\ \A p \in 0 .. Len(gc.changed) - 1 :
                \A j \in 1 .. gc.K : word[p][j] \in 0 .. gc.N - 1

\* the largest generator was built; its entries turn every digit position,
\* the highest included
C25_GrayCodeVisitsEveryWordOnce_Witness ==
    /\ gc.pc = "built"
    /\ gc.N = MaxGrayN /\ gc.K = MaxGrayK
    /\ \A j \in 0 .. gc.K - 1 : \E p \in 2 .. Len(gc.changed) : gc.changed[p][1] = j

\* C26: for every v in [0, N^K), v_value() returns exactly K digits and they
\* are the code word the generated sequence holds at position v
C26_VValueIsCodeWordAtV ==
    gc.pc = "valued" =>
        /\ Len(gc.out) = gc.K
        /\ gc.out = gray_word(gc.changed, gc.v, gc.K)
(***************************************************************************)
(* Pseudo commitments  (src/proofs/ringct.cpp)                             *)
(*   one call of generate_pseudo_commitments.  A vector index is a size_t  *)
(*   of SizeBits bits.  A read or write outside a vector is undefined: the *)
(*   process ends there, or the call goes on with whatever it read.        *)
(***************************************************************************)

\* most input amounts, most output blinding factors, largest blinding
\* factor and largest scalar random() returns
MaxInputs == 2

MaxOutputs == 2

MaxOutputBlinding == 2

MaxPseudoRand == 2

\* input_amounts.size() - 1 in size_t
size_t_pred(n) == (n - 1) % (2 ^ SizeBits)

\* generate_pseudo_commitments with drawn the scalars random(size) returns:
\* outcome "threw" for SCALAR_NZ_OR_THROW, else "returned"; oob tells that an
\* element outside a vector was accessed, iterations counts the passes of
\* the for loop
generate_pseudo_commitments(input_amounts, output_blinding_factors, drawn) ==
    LET size == Len(input_amounts)
        sum_of_outputs == SumOver(output_blinding_factors, 1 .. Len(output_blinding_factors))
        sum_of_pseudo_outputs == SumOver(drawn, 1 .. size)
        iterations == size_t_pred(size)
        last == sc_add(drawn[size], sc_sub(sum_of_outputs, sum_of_pseudo_outputs))
        pseudo_blinding_factors == [i \in 1 .. size |-> IF i = size THEN last ELSE drawn[i]]
    IN  IF \E i \in 1 .. Len(output_blinding_factors) : ~scalar_valid(output_blinding_factors[i])
        THEN [outcome |-> "threw", oob |-> FALSE, iterations |-> 0,
              blinding_factors |-> <<>>, commitments |-> <<>>]
        ELSE IF iterations > size
        THEN [outcome |-> "returned", oob |-> TRUE, iterations |-> iterations,
              blinding_factors |-> <<>>, commitments |-> <<>>]
        ELSE [outcome |-> "returned", oob |-> FALSE, iterations |-> iterations,
              blinding_factors |-> pseudo_blinding_factors,
              commitments |-> [i \in 1 .. size |->
                                  generate_pedersen_commitment(pseudo_blinding_factors[i],
                                                               input_amounts[i])]]

PsInit ==
    /\ ps = [pc |-> "start", input_amounts |-> <<>>, output_blinding_factors |-> <<>>,
             iterations |-> 0, oob |-> FALSE, blinding_factors |-> <<>>, commitments |-> <<>>]
    /\ tr = Idle /\ sg = Idle /\ bor = Idle /\ cl = Idle /\ tri = Idle /\ bp = Idle /\ mn = Idle /\ ss = Idle /\ ser = Idle /\ rct = Idle /\ sc = Idle /\ gen = Idle /\ gt = Idle /\ vo = Idle /\ ip = Idle /\ gc = Idle /\ cmp = Idle

\* generate_pseudo_commitments(input_amounts, output_blinding_factors); after
\* an access outside a vector the process ends ("crashed"), or an exception
\* leaves the call, or it returns
PsCall ==
    /\ ps.pc = "start"
    /\ \E n \in 0 .. MaxInputs, m \in 0 .. MaxOutputs :
       \E input_amounts \in [1 .. n -> 0 .. MaxAmount],
          output_blinding_factors \in [1 .. m -> 0 .. MaxOutputBlinding],
          drawn \in [1 .. n -> 1 .. MaxPseudoRand] :
           LET call == generate_pseudo_commitments(input_amounts, output_blinding_factors, drawn)
           IN  \E end \in (IF call.oob THEN {"crashed", "threw", "returned"} ELSE {call.outcome}) :
                   ps' = [ps EXCEPT !.pc = end, !.input_amounts = input_amounts,
                                    !.output_blinding_factors = output_blinding_factors,
                                    !.iterations = call.iterations, !.oob = call.oob,
                                    !.blinding_factors = call.blinding_factors,
                                    !.commitments = call.commitments]

PsNext == PsCall /\ UNCHANGED <<tr, sg, bor, cl, tri, bp, mn, ss, ser, rct, sc, gen, gt, vo, ip, gc, cmp>>

SpecPseudoCommitments == PsInit /\ [][PsNext]_vars

\* C28 (the claim as stated): generate_pseudo_commitments called with an
\* empty list of input amounts accesses no element outside a vector and
\* finishes after a number of loop passes bounded by the number of inputs
C28_EmptyInputsStayInRange ==
    (ps.pc # "start" /\ Len(ps.input_amounts) = 0) =>
        /\ ~ps.oob
        /\ ps.pc # "crashed"
        /\ ps.iterations <= Len(ps.input_amounts)
(***************************************************************************)
(* Scalar comparison  (src/types/crypto_scalar_t.cpp)                      *)
(*   a scalar is ScalarBytes bytes of ByteBits bits, least significant     *)
(*   first; one scalar a and one unsigned integer b are compared with      *)
(*   each operator in turn                                                 *)
(***************************************************************************)

\* bits of a byte and bytes of a scalar in the model
ByteBits == 2

ScalarBytes == 4

\* largest scalar and largest unsigned integer compared
MaxCompared == 5

\* bytes[i] of the scalar a (0-based i)
scalar_byte(a, i) == (a \div ((2 ^ ByteBits) ^ i)) % (2 ^ ByteBits)

\* crypto_scalar_t(number): memcpy of the integer into the bytes
scalar_from_uint64(number) == number % ((2 ^ ByteBits) ^ ScalarBytes)

\* operator<(const crypto_scalar_t &): the loop from byte i - 1 downwards
RECURSIVE scalar_lt_from(_, _, _)
scalar_lt_from(a, other, i) ==
    IF i = 0 THEN FALSE
    ELSE IF scalar_byte(a, i - 1) < scalar_byte(other, i - 1) THEN TRUE
    ELSE IF scalar_byte(a, i - 1) > scalar_byte(other, i - 1) THEN FALSE
    ELSE scalar_lt_from(a, other, i - 1)

scalar_lt(a, other) == scalar_lt_from(a, other, ScalarBytes)

\* operator>(const crypto_scalar_t &)
RECURSIVE scalar_gt_from(_, _, _)
scalar_gt_from(a, other, i) ==
    IF i = 0 THEN FALSE
    ELSE IF scalar_byte(a, i - 1) > scalar_byte(other, i - 1) THEN TRUE
    ELSE IF scalar_byte(a, i - 1) < scalar_byte(other, i - 1) THEN FALSE
    ELSE scalar_gt_from(a, other, i - 1)

scalar_gt(a, other) == scalar_gt_from(a, other, ScalarBytes)

\* operator==(const crypto_scalar_t &): std::equal over the bytes
scalar_eq(a, other) == \A i \in 0 .. ScalarBytes - 1 : scalar_byte(a, i) = scalar_byte(other, i)

\* the operators taking const uint64_t &
scalar_eq_uint64(a, other) == scalar_eq(a, scalar_from_uint64(other))

scalar_lt_uint64(a, other) == scalar_lt(a, scalar_from_uint64(other))

scalar_le_uint64(a, other) == scalar_lt_uint64(a, other) \/ scalar_eq_uint64(a, other)

\* operator>(const uint64_t &): return (*this < other_scalar)
scalar_gt_uint64(a, other) == scalar_lt(a, scalar_from_uint64(other))

scalar_ge_uint64(a, other) == scalar_gt_uint64(a, other) \/ scalar_eq_uint64(a, other)

CmpOperators == {"<", "<=", "==", ">", ">="}

CmpInit ==
    /\ cmp = [a |-> 0, b |-> 0, picked |-> FALSE, done |-> {},
              lt |-> FALSE, le |-> FALSE, eq |-> FALSE, gt |-> FALSE, ge |-> FALSE]
    /\ tr = Idle /\ sg = Idle /\ bor = Idle /\ cl = Idle /\ tri = Idle /\ bp = Idle /\ mn = Idle /\ ss = Idle /\ ser = Idle /\ rct = Idle /\ sc = Idle /\ gen = Idle /\ gt = Idle /\ vo = Idle /\ ip = Idle /\ gc = Idle /\ ps = Idle

\* the caller holds a scalar a and an unsigned integer b
CmpPick ==
    /\ ~cmp.picked
    /\ \E a \in 0 .. MaxCompared, b \in 0 .. MaxCompared :
        cmp' = [cmp EXCEPT !.a = a, !.b = b, !.picked = TRUE]

CmpLess ==
    /\ cmp.picked /\ "<" \notin cmp.done
    /\ cmp' = [cmp EXCEPT !.lt = scalar_lt_uint64(cmp.a, cmp.b), !.done = @ \cup {"<"}]

CmpLessEqual ==
    /\ cmp.picked /\ "<=" \notin cmp.done
    /\ cmp' = [cmp EXCEPT !.le = scalar_le_uint64(cmp.a, cmp.b), !.done = @ \cup {"<="}]

CmpEqual ==
    /\ cmp.picked /\ "==" \notin cmp.done
    /\ cmp' = [cmp EXCEPT !.eq = scalar_eq_uint64(cmp.a, cmp.b), !.done = @ \cup {"=="}]

CmpGreater ==
    /\ cmp.picked /\ ">" \notin cmp.done
    /\ cmp' = [cmp EXCEPT !.gt = scalar_gt_uint64(cmp.a, cmp.b), !.done = @ \cup {">"}]

CmpGreaterEqual ==
    /\ cmp.picked /\ ">=" \notin cmp.done
    /\ cmp' = [cmp EXCEPT !.ge = scalar_ge_uint64(cmp.a, cmp.b), !.done = @ \cup {">="}]

CmpNext == (CmpPick \/ CmpLess \/ CmpLessEqual \/ CmpEqual \/ CmpGreater \/ CmpGreaterEqual) /\ UNCHANGED <<tr, sg, bor, cl, tri, bp, mn, ss, ser, rct, sc, gen, gt, vo, ip, gc, ps>>

SpecScalarCompare == CmpInit /\ [][CmpNext]_vars

\* C29 (the claim as stated): for every scalar a and unsigned integer b
\* exactly one of a < b, a == b and a > b is true, and a >= b is true
\* exactly when a < b is false
C29_ComparisonIsTrichotomy ==
    cmp.done = CmpOperators =>
        /\ \/ cmp.lt /\ ~cmp.eq /\ ~cmp.gt
           \/ ~cmp.lt /\ cmp.eq /\ ~cmp.gt
           \/ ~cmp.lt /\ ~cmp.eq /\ cmp.gt
        /\ cmp.ge <=> ~cmp.lt
====
